---- MODULE Spec2Model ----
(***************************************************************************)
(* Model of the resilient STT -> AI -> TTS pipeline of the customgpt-widget *)
(* backend: the retry engine (retry_utils.py), the fallback-chain executor  *)
(* (fallback.py) and the /inference orchestration (routes/inference.py,     *)
(* stt.py, ai.py, routes/tts.py), and of the RateLimiter of the Instagram   *)
(* chat bot (rate_limiter.py).                                              *)
(*                                                                          *)
(* Eleven specifications share the module:                                  *)
(*   SpecDelay     RetryConfig.calculate_delay on bounded configurations    *)
(*   SpecRetry     one run of retry_async / retry_sync                      *)
(*   SpecFallback  one run of execute_fallback_chain                        *)
(*   Spec          one request through unified_inference                    *)
(*   SpecTemp      temporary audio files of the Edge TTS and gTTS paths     *)
(*   SpecLoop      coroutines sharing the event loop during a retried call  *)
(*   SpecSessions  the CustomGPT session cache across requests              *)
(*   SpecClassify  one call of should_retry                                 *)
(*   SpecStream    the audio stream text_to_speech returns                  *)
(*   SpecStt       the temporary files of transcribe                        *)
(*   SpecRate      the Instagram bot's RateLimiter in local-storage mode    *)
(* Each specification owns a group of variables and leaves the others at    *)
(* their initial value.                                                     *)
(***************************************************************************)
EXTENDS Integers, Sequences, FiniteSets, TLC

VARIABLES
    \* ---- RetryConfig.calculate_delay (SpecDelay)
    dcfg,            \* the RetryConfig under test
    dattempt,        \* next attempt index to evaluate
    delays,          \* delays computed so far, delays[a+1] = calculate_delay(a)
    \* ---- retry_async / retry_sync (SpecRetry)
    rkind,           \* "async" (retry_async) or "sync" (retry_sync)
    rcfg,            \* the RetryConfig of this run
    rpc,             \* "call" | "sleep" | "returned" | "raised"
    attempt,         \* loop variable of `for attempt in range(max_attempts)`
    calls,           \* number of invocations of func so far
    last_exception,  \* the variable of the same name
    raised,          \* the exception that left the function, or NoError
    sleeps,          \* the delays slept so far, in order
    allRetryable,    \* history: every call so far failed with a retryable error
    firstOutcome,    \* history: outcome class of the first call
    \* ---- execute_fallback_chain (SpecFallback)
    cands,           \* cands[1] the primary's behaviour, cands[i+1] fallback i's
    fbNone,          \* fallback_funcs was passed as None
    fpc,             \* "primary" | "fallbacks" | "done"
    flevel,          \* loop variable `level` of the fallback loop
    invoked,         \* names of the candidates invoked, in order
    primaryErr,      \* the `e` bound by `except Exception as e`
    fresult,         \* the FallbackResult returned, or NoResult
    \* ---- unified_inference (Spec)
    req,             \* the request: content type is an audio type, payload size, Conversation header
    useCustomGPT,    \* USE_CUSTOMGPT
    ttsMode,         \* "disabled" (caps.tts_enabled false) | "openai" | "edge_only" (openai_client is None)
    ppc,             \* position of the request in unified_inference
    patt,            \* attempt index of the running stage's retry loop
    status,          \* HTTP status of the response, 0 while the request runs
    failedAt,        \* the step that ended the request with an error, or "none"
    cause,           \* why it failed: "none" | "input" | "deadline" | "provider" | "convert" | "empty" | "config"
    detail,          \* the `detail` of the HTTPException that ended the request, NoDetail otherwise
    events,          \* history: provider calls, fallback invocations and stage returns, in order
    expired,         \* expired[s]: the deadline of stage s passed while s was running
    transcript,      \* what transcribe returned
    ai_response,     \* what get_completion returned
    messages,        \* the local list `messages` of unified_inference
    transcript_text, \* the string bound to `transcript`
    ai_response_text,    \* the string bound to `ai_response`
    conversation_header, \* the X-Conversation header of the response
    retryableOnly,   \* history: retryableOnly[s], every failure of s's primary so far is retryable by should_retry
    \* ---- temporary files of the TTS fallback candidates (SpecTemp)
    tkind,           \* tkind[r]: the candidate that run r executes
    tpc,             \* tpc[r]: "start" | "save" | "saved" | "returned" | "done"
    tpath,           \* tpath[r]: the local temp_path / filepath of run r, NoPath before it is set
    tout,            \* tout[r]: how run r left the candidate: "none" | "ok" | "failed" | "cancelled"
    files,           \* the files that exist in the temporary directory
    created,         \* history: the names of the files that were created
    removed,         \* history: removed[p], the number of successful os.remove(p)
    pending,         \* the os.remove tasks added to background_tasks and not yet run
    \* ---- requests sharing the event loop (SpecLoop)
    lkind,           \* lkind[t]: the retry function task t runs its provider call under: "retry_sync" | "retry_async"
    lpc,             \* lpc[t]: "ready" | "call" | "sleep" | "done"
    latt,            \* latt[t]: loop variable `attempt` of task t
    holder,          \* the task that occupies the loop's thread in a blocking call, NoTask if none
    \* ---- CustomGPT sessions (SpecSessions)
    sconv,           \* sconv[q]: the client conversation request q belongs to
    shist,           \* shist[q]: the number of entries of the history request q carries
    spc,             \* spc[q]: "pending" | "done"
    session_id,      \* session_id[q]: the local session_id of request q, NoSession before it is set
    customgpt_sessions,  \* the module-level dict of ai.py, as a set of [key, sid] items
    served,          \* history: the requests in the order get_completion handled them
    \* ---- should_retry (SpecClassify)
    exception,       \* the argument of should_retry
    verdict,         \* what should_retry(exception) returned: "True" | "False", "unset" before the call
    \* ---- the audio stream of text_to_speech (SpecStream)
    stpc,            \* stpc[q]: "tts" | "returned" | "streaming" | "ended"
    streaming_response,  \* streaming_response[q]: "None" | "open" | "closed"
    use_file_streaming,  \* use_file_streaming[q]: the audio comes from the Edge TTS file
    total_chunks,    \* total_chunks[q]: the number of chunks the audio has
    chunk_count,     \* chunk_count[q]: the chunks yielded so far
    closes,          \* history: closes[q], the number of calls of streaming_response.close()
    outcome,         \* outcome[q]: "none" | "failed" | "never_iterated" | "drained" | "aborted"
    \* ---- temporary files of transcribe (SpecStt)
    trpc,            \* trpc[r]: "write" | "convert" | "provider" | "finally" | "done"
    trfiles,         \* trfiles[r]: which of the two files of run r exist
    trcreated,       \* history: trcreated[r], the files run r created
    trremoved,       \* history: trremoved[r][f], the number of successful os.remove(f)
    trmissing,       \* history: trmissing[r], the files os.remove was called on while they did not exist
    trbound,         \* trbound[r]: 'converted_filepath' in locals()
    trexit,          \* trexit[r]: how the try block was left / transcribe ended
    \* ---- Instagram RateLimiter, local storage (SpecRate)
    now,             \* datetime.utcnow(), in minutes
    local_storage,   \* RateLimiter.local_storage, as the set of its items
    grants,          \* history: grants[u][t], the calls of user u at minute t answered allowed = true
    ncalls           \* history: the number of calls of check_rate_limit so far

delayVars == <<dcfg, dattempt, delays>>
retryVars == <<rkind, rcfg, rpc, attempt, calls, last_exception, raised,
               sleeps, allRetryable, firstOutcome>>
fbVars    == <<cands, fbNone, fpc, flevel, invoked, primaryErr, fresult>>
pipeVars  == <<req, useCustomGPT, ttsMode, ppc, patt, status, failedAt, cause, detail,
               events, expired, transcript, ai_response, messages, transcript_text,
               ai_response_text, conversation_header, retryableOnly>>
tempVars  == <<tkind, tpc, tpath, tout, files, created, removed, pending>>
loopVars  == <<lkind, lpc, latt, holder>>
sessVars  == <<sconv, shist, spc, session_id, customgpt_sessions, served>>
classVars == <<exception, verdict>>
streamVars == <<stpc, streaming_response, use_file_streaming, total_chunks, chunk_count, closes, outcome>>
sttVars == <<trpc, trfiles, trcreated, trremoved, trmissing, trbound, trexit>>
rateVars == <<now, local_storage, grants, ncalls>>
vars      == <<delayVars, retryVars, fbVars, pipeVars, tempVars, loopVars, sessVars, classVars, streamVars, sttVars, rateVars>>
\* What the steps of one specification leave alone.
notDelay  == <<retryVars, fbVars, pipeVars, tempVars, loopVars, sessVars, classVars, streamVars, sttVars, rateVars>>
notRetry  == <<delayVars, fbVars, pipeVars, tempVars, loopVars, sessVars, classVars, streamVars, sttVars, rateVars>>
notFb     == <<delayVars, retryVars, pipeVars, tempVars, loopVars, sessVars, classVars, streamVars, sttVars, rateVars>>
notPipe   == <<delayVars, retryVars, fbVars, tempVars, loopVars, sessVars, classVars, streamVars, sttVars, rateVars>>
notTemp   == <<delayVars, retryVars, fbVars, pipeVars, loopVars, sessVars, classVars, streamVars, sttVars, rateVars>>
notLoop   == <<delayVars, retryVars, fbVars, pipeVars, tempVars, sessVars, classVars, streamVars, sttVars, rateVars>>
notSess   == <<delayVars, retryVars, fbVars, pipeVars, tempVars, loopVars, classVars, streamVars, sttVars, rateVars>>
notClass == <<delayVars, retryVars, fbVars, pipeVars, tempVars, loopVars, sessVars, streamVars, sttVars, rateVars>>
notStream == <<delayVars, retryVars, fbVars, pipeVars, tempVars, loopVars, sessVars, classVars, sttVars, rateVars>>
notStt == <<delayVars, retryVars, fbVars, pipeVars, tempVars, loopVars, sessVars, classVars, streamVars, rateVars>>
notRate == <<delayVars, retryVars, fbVars, pipeVars, tempVars, loopVars, sessVars, classVars, streamVars, sttVars>>

(***************************************************************************)
(* Bounds of the model                                                      *)
(***************************************************************************)
MaxBaseDelay == 2      \* base_delay ranges over 0..MaxBaseDelay seconds
MaxMaxDelay == 5       \* max_delay ranges over 0..MaxMaxDelay seconds
MaxExpBase == 3        \* exponential_base ranges over 1..MaxExpBase
MaxDelayAttempt == 4   \* calculate_delay is evaluated for attempts 0..MaxDelayAttempt
JitterSteps == 2       \* random.random() ranges over {0/JitterSteps .. (JitterSteps-1)/JitterSteps}
MaxAttempts == 3       \* max_attempts ranges over 1..MaxAttempts
MaxMarkers == 2        \* an error message contains at most MaxMarkers of the classified substrings
MaxFallbacks == 3      \* a fallback chain has at most MaxFallbacks fallback candidates
MaxExtraTurns == 5     \* a client history has at most MAX_CONVERSATION_LENGTH + MaxExtraTurns entries
MaxTempRuns == 2       \* concurrent runs of TTS fallback candidates
MaxLoopTasks == 2      \* concurrent requests on the event loop
MaxSessRequests == 3   \* requests that reach the CustomGPT branch of get_completion
MaxConversations == 2  \* client conversations the requests belong to
MaxHistory == 1        \* a request carries a history of 0..MaxHistory entries
MaxSttRuns == 2        \* concurrent calls of transcribe
MaxUsers == 2          \* Instagram users that send messages
MaxClock == 4          \* the clock runs from minute 0 to minute MaxClock of one day
MaxCalls == 4          \* check_rate_limit is called at most MaxCalls times
RATE_LIMIT_PER_USER_PER_MINUTE == 1   \* Config value (environment), scaled down
RATE_LIMIT_PER_USER_PER_HOUR == 2     \* Config value (environment), scaled down
MaxStreams == 2        \* concurrent requests that reach the TTS stage
MaxChunks == 2         \* the audio of a response has 1..MaxChunks chunks

\* Durations are counted in ticks, Ticks to the second, so that a quarter of a
\* delay times a random fraction k/JitterSteps is a whole number of ticks.
Ticks == 4 * JitterSteps

Min(a, b) == IF a <= b THEN a ELSE b

RECURSIVE Pow(_, _)
Pow(b, n) == IF n = 0 THEN 1 ELSE b * Pow(b, n - 1)

(***************************************************************************)
(* retry_utils.py: RetryConfig                                              *)
(***************************************************************************)
RetryConfig(n, base, max, eb, j) ==
    [max_attempts |-> n, base_delay |-> base, max_delay |-> max,
     exponential_base |-> eb, jitter |-> j]

\* A variant that forgets the cap at max_delay.
calculate_delay_uncapped(cfg, a, r) ==
    LET delay == cfg.base_delay * Pow(cfg.exponential_base, a)
    IN  IF cfg.jitter THEN delay + (delay * r) \div (4 * JitterSteps) ELSE delay

\* calculate_delay(attempt); r / JitterSteps is the value random.random()
\* returns when jitter is enabled.
calculate_delay(cfg, a, r) ==
    LET delay  == cfg.base_delay * Pow(cfg.exponential_base, a)
        capped == Min(delay, cfg.max_delay)
    IN  IF cfg.jitter THEN capped + (capped * r) \div (4 * JitterSteps) ELSE capped

\* The predefined configurations (seconds converted to ticks).
RETRY_CONFIG_STT == RetryConfig(3, 1 * Ticks, 5 * Ticks, 2, TRUE)
RETRY_CONFIG_AI  == RetryConfig(3, 2 * Ticks, 10 * Ticks, 2, TRUE)
RETRY_CONFIG_TTS == RetryConfig(3, 1 * Ticks, 5 * Ticks, 2, TRUE)

DelayConfigs ==
    { RetryConfig(3, b * Ticks, m * Ticks, eb, j) :
        b \in 0..MaxBaseDelay, m \in 0..MaxMaxDelay, eb \in 1..MaxExpBase, j \in BOOLEAN }

DelayIdle ==
    /\ dcfg = RetryConfig(3, 0, 0, 1, FALSE) /\ dattempt = 0 /\ delays = <<>>

DelayInit ==
    /\ dcfg \in DelayConfigs
    /\ dattempt = 0
    /\ delays = <<>>

\* One evaluation of calculate_delay(dattempt), for the next attempt index.
DelayStep ==
    /\ dattempt <= MaxDelayAttempt
    /\ \E r \in 0..(JitterSteps - 1) :
         /\ (~dcfg.jitter => r = 0)
         /\ delays' = Append(delays, calculate_delay(dcfg, dattempt, r))
    /\ dattempt' = dattempt + 1
    /\ UNCHANGED dcfg
    /\ UNCHANGED notDelay

(***************************************************************************)
(* retry_utils.py: should_retry                                             *)
(*                                                                          *)
(* An exception is its Python type, the set of classified substrings that   *)
(* str(exception).lower() contains, and the index of the call that raised   *)
(* it (so that two exceptions of different calls are different objects).    *)
(***************************************************************************)
NetworkTypes == {"ConnectionError", "TimeoutError"}   \* asyncio.TimeoutError included
ErrTypes == NetworkTypes \cup {"Exception"}

retryable_conditions ==
    {"timeout", "connection", "network", "503", "502", "504", "429",
     "rate limit", "too many requests"}
non_retryable_conditions ==
    {"401", "403", "404", "invalid api key", "authentication", "authorization"}
server_error_conditions == {"500", "5xx"}
Markers == retryable_conditions \cup non_retryable_conditions \cup server_error_conditions

\* The messages that contain at most k of the substrings S.
RECURSIVE MessagesOver(_, _)
MessagesOver(S, k) ==
    IF k = 0 THEN {{}}
    ELSE LET P == MessagesOver(S, k - 1) IN P \cup { m \cup {a} : m \in P, a \in S }

Messages == MessagesOver(Markers, MaxMarkers)

\* The messages the operation of a retry run fails with: one or two substrings
\* of each class of should_retry.
SampleMarkers == {"timeout", "429", "401", "authentication", "500"}
SampleMessages == MessagesOver(SampleMarkers, MaxMarkers)

Exc(t, m, i) == [type |-> t, msg |-> m, id |-> i]
NoError == [type |-> "none", msg |-> {}, id |-> -1]

\* A variant that looks for "500" / "5xx" before the non-retryable substrings.
should_retry_server_first(e) ==
    IF e.type \in NetworkTypes THEN TRUE
    ELSE IF e.msg \cap retryable_conditions # {} THEN TRUE
    ELSE IF e.msg \cap server_error_conditions # {} THEN TRUE
    ELSE FALSE

should_retry(e) ==
    IF e.type \in NetworkTypes THEN TRUE
    ELSE IF e.msg \cap retryable_conditions # {} THEN TRUE
    ELSE IF e.msg \cap non_retryable_conditions # {} THEN FALSE
    ELSE IF e.msg \cap server_error_conditions # {} THEN TRUE
    ELSE FALSE

\* One call of should_retry on an exception of any type whose message contains
\* at most MaxMarkers of the classified substrings.
ClassIdle ==
    /\ exception = NoError /\ verdict = "unset"

ClassInit ==
    /\ exception \in { Exc(t, m, 0) : t \in ErrTypes, m \in Messages }
    /\ verdict = "unset"

Classify ==
    /\ verdict = "unset"
    /\ verdict' = IF should_retry(exception) THEN "True" ELSE "False"
    /\ UNCHANGED exception
    /\ UNCHANGED notClass

(***************************************************************************)
(* retry_utils.py: retry_async / retry_sync                                 *)
(* The two functions have the same loop; they differ in the sleep           *)
(* (asyncio.sleep / time.sleep), which rkind records.                       *)
(***************************************************************************)
RetryConfigs ==
    { RetryConfig(n, 1 * Ticks, 5 * Ticks, 2, j) : n \in 1..MaxAttempts, j \in BOOLEAN }

RetryIdle ==
    /\ rkind = "async" /\ rcfg = RetryConfig(1, 0, 0, 1, FALSE)
    /\ rpc = "returned" /\ attempt = 0 /\ calls = 0
    /\ last_exception = NoError /\ raised = NoError /\ sleeps = <<>>
    /\ allRetryable = TRUE /\ firstOutcome = "none"

RetryInit ==
    /\ rkind \in {"async", "sync"}
    /\ rcfg \in RetryConfigs
    /\ rpc = "call"
    /\ attempt = 0
    /\ calls = 0
    /\ last_exception = NoError
    /\ raised = NoError
    /\ sleeps = <<>>
    /\ allRetryable = TRUE
    /\ firstOutcome = "none"

\* A variant whose last-attempt test is off by one: it gives up one attempt early.
is_last_attempt_early(cfg, a) == a >= cfg.max_attempts - 2

is_last_attempt(cfg, a) == a = cfg.max_attempts - 1

\* A variant of the except block that goes on after a non-retryable error.
AfterFailure_ignore_class(cfg, a, e) ==
    IF is_last_attempt(cfg, a) THEN "raise" ELSE "sleep"

\* A variant of the except block that sleeps after the final attempt as well.
AfterFailure_sleep_last(cfg, a, e) ==
    IF ~should_retry(e) THEN "raise" ELSE "sleep"

\* The except block: what follows a failed attempt a with exception e.
AfterFailure(cfg, a, e) ==
    IF ~should_retry(e) THEN "raise"
    ELSE IF is_last_attempt(cfg, a) THEN "raise"
    ELSE "sleep"

\* func(*args, **kwargs) returns: the loop returns its result.
RetryCallOk ==
    /\ rpc = "call"
    /\ calls' = calls + 1
    /\ rpc' = "returned"
    /\ allRetryable' = FALSE
    /\ firstOutcome' = IF calls = 0 THEN "ok" ELSE firstOutcome
    /\ UNCHANGED <<rkind, rcfg, attempt, last_exception, raised, sleeps>>
    /\ UNCHANGED notRetry

\* func(*args, **kwargs) raises e: the except block.
RetryCallFail ==
    /\ rpc = "call"
    /\ \E t \in ErrTypes, m \in SampleMessages :
         LET e == Exc(t, m, attempt) IN
         /\ calls' = calls + 1
         /\ last_exception' = e
         /\ allRetryable' = (allRetryable /\ should_retry(e))
         /\ firstOutcome' = IF calls # 0 THEN firstOutcome
                            ELSE IF should_retry(e) THEN "retryable" ELSE "fatal"
         /\ IF AfterFailure(rcfg, attempt, e) = "raise"
            THEN /\ rpc' = "raised"
                 /\ raised' = e
                 /\ sleeps' = sleeps
            ELSE /\ rpc' = "sleep"
                 /\ raised' = raised
                 /\ \E r \in 0..(JitterSteps - 1) :
                      /\ (~rcfg.jitter => r = 0)
                      /\ sleeps' = Append(sleeps, calculate_delay(rcfg, attempt, r))
    /\ UNCHANGED <<rkind, rcfg, attempt>>
    /\ UNCHANGED notRetry

\* The sleep ends and the for loop takes its next iteration; when the range is
\* used up the function raises last_exception (line 222 / 292).
RetrySleepDone ==
    /\ rpc = "sleep"
    /\ attempt' = attempt + 1
    /\ IF attempt + 1 < rcfg.max_attempts
       THEN /\ rpc' = "call"
            /\ raised' = raised
       ELSE /\ rpc' = "raised"
            /\ raised' = last_exception
    /\ UNCHANGED <<rkind, rcfg, calls, last_exception, sleeps, allRetryable, firstOutcome>>
    /\ UNCHANGED notRetry

(***************************************************************************)
(* fallback.py: FallbackResult, execute_fallback_chain                      *)
(*                                                                          *)
(* A candidate is a name and what its call does: "value" (returns a value), *)
(* "none" (returns None) or "fail" (raises).  A returned value is written   *)
(* as the position of the candidate that produced it, None as NoneValue.    *)
(***************************************************************************)
NoneValue == -1
NoName == "None"
ProviderNames == <<"OpenAI", "Edge TTS", "gTTS", "Template Response", "Text-only mode">>
Behaviours == {"value", "none", "fail"}

FallbackResult(success, result, provider_used, fallback_level, error) ==
    [success |-> success, result |-> result, provider_used |-> provider_used,
     fallback_level |-> fallback_level, error |-> error]
NoResult == FallbackResult(FALSE, NoneValue, "unset", -2, NoError)

\* Candidate chains: the primary followed by 0..MaxFallbacks fallbacks.
Chains ==
    UNION { [1..n -> Behaviours] : n \in 1..(MaxFallbacks + 1) }

NameOf(i) == ProviderNames[((i - 1) % Len(ProviderNames)) + 1]
ReturnOf(i) == IF cands[i] = "value" THEN i - 1 ELSE NoneValue

FbIdle ==
    /\ cands = <<"value">> /\ fbNone = FALSE /\ fpc = "done" /\ flevel = 0
    /\ invoked = <<>> /\ primaryErr = NoError /\ fresult = NoResult

FbInit ==
    /\ cands \in Chains
    /\ fbNone \in BOOLEAN
    /\ (fbNone => Len(cands) = 1)
    /\ fpc = "primary"
    /\ flevel = 0
    /\ invoked = <<>>
    /\ primaryErr = NoError
    /\ fresult = NoResult

\* A variant of the exhaustion result that reports the last failure seen.
ExhaustedResult_last_error(e, last) == FallbackResult(FALSE, NoneValue, NoName, -1, last)

\* Lines 112-119: all providers failed; e is the primary's exception.
ExhaustedResult(e, last) == FallbackResult(FALSE, NoneValue, NoName, -1, e)

\* A variant that numbers the fallbacks from 0.
SuccessLevel_zero_based(level) == IF level = 0 THEN 0 ELSE level - 1

\* fallback_level of a success: 0 for the primary, enumerate(start=1) after.
SuccessLevel(level) == level

\* Lines 77-92: the primary is awaited.
FbPrimary ==
    /\ fpc = "primary"
    /\ invoked' = Append(invoked, NameOf(1))
    /\ IF cands[1] # "fail"
       THEN /\ fresult' = FallbackResult(TRUE, ReturnOf(1), NameOf(1), SuccessLevel(0), NoError)
            /\ fpc' = "done"
            /\ UNCHANGED <<primaryErr, flevel>>
       ELSE LET e == Exc("Exception", {}, 0) IN
            /\ primaryErr' = e
            /\ IF ~fbNone /\ Len(cands) > 1
               THEN /\ fpc' = "fallbacks"
                    /\ flevel' = 1
                    /\ fresult' = fresult
               ELSE /\ fpc' = "done"
                    /\ flevel' = flevel
                    /\ fresult' = ExhaustedResult(e, e)
    /\ UNCHANGED <<cands, fbNone>>
    /\ UNCHANGED notFb

\* Lines 93-110: one iteration of the loop over fallback_funcs.
FbFallback ==
    /\ fpc = "fallbacks"
    /\ invoked' = Append(invoked, NameOf(flevel + 1))
    /\ IF cands[flevel + 1] # "fail"
       THEN /\ fresult' = FallbackResult(TRUE, ReturnOf(flevel + 1), NameOf(flevel + 1),
                                         SuccessLevel(flevel), NoError)
            /\ fpc' = "done"
            /\ flevel' = flevel
       ELSE IF flevel + 1 < Len(cands)
            THEN /\ flevel' = flevel + 1
                 /\ fpc' = "fallbacks"
                 /\ fresult' = fresult
            ELSE /\ fpc' = "done"
                 /\ flevel' = flevel
                 /\ fresult' = ExhaustedResult(primaryErr, Exc("Exception", {}, flevel))
    /\ UNCHANGED <<cands, fbNone, primaryErr>>
    /\ UNCHANGED notFb

(***************************************************************************)
(* routes/inference.py: unified_inference, with the stages it awaits:       *)
(* stt.transcribe, ai.get_completion, routes/tts.text_to_speech.            *)
(***************************************************************************)
MAX_AUDIO_SIZE == 10 * 1024 * 1024
Stages == {"stt", "ai", "tts"}

STT_FALLBACK_CHAIN == <<"Text-only mode">>
AI_FALLBACK_CHAIN  == <<"Template Response">>
TTS_FALLBACK_CHAIN == <<"Edge TTS", "gTTS">>
FallbackChainOf(s) ==
    IF s = "stt" THEN STT_FALLBACK_CHAIN
    ELSE IF s = "ai" THEN AI_FALLBACK_CHAIN ELSE TTS_FALLBACK_CHAIN

\* Payload sizes around the two limits.
AudioSizes == {0, 1, MAX_AUDIO_SIZE, MAX_AUDIO_SIZE + 1}

\* Provider failures a stage may see.
ProviderErrors ==
    { [type |-> "ConnectionError", msg |-> {}],
      [type |-> "TimeoutError",    msg |-> {}],
      [type |-> "Exception",       msg |-> {"503"}],
      [type |-> "Exception",       msg |-> {"timeout", "connection"}],
      [type |-> "Exception",       msg |-> {"401"}],
      [type |-> "Exception",       msg |-> {}] }

Event(k, s, n) == [k |-> k, stage |-> s, name |-> n]
ProviderCall(s) == Event("call", s, "primary")
FallbackCall(s, n) == Event("fallback", s, n)
StageReturn(s) == Event("return", s, "")
\* The stage's coroutine (transcribe, get_completion, text_to_speech) is called.
StageEnter(s) == Event("enter", s, "")
\* The output of stage s was longer than its bound and has been cut.
Truncated(s) == Event("truncate", s, "")

Has(ev) == \E i \in 1..Len(events) : events[i] = ev
StageTouched(s) ==
    \E i \in 1..Len(events) : events[i].stage = s /\ events[i].k \in {"call", "fallback"}
CallCount(s) == Cardinality({ i \in 1..Len(events) : events[i] = ProviderCall(s) })
NoProviderCalled == \A s \in Stages : ~StageTouched(s)

\* ---- strings.  A string is the number of its leading whitespace characters
\* and the number of the characters that follow them (the first of which is not
\* whitespace); a string made of whitespace only has body 0.  NoText is None.
Str(lead, body) == [lead |-> lead, body |-> body]
NoText == Str(-1, -1)
StrLen(s) == s.lead + s.body

\* `not s or not s.strip()` (inference.py 112, 171; routes/tts.py 39)
Blank(s) == s.body <= 0

\* ai.py 516-517: `not user_prompt or user_prompt.isspace()`
is_empty(s) == StrLen(s) <= 0 \/ (s.lead > 0 /\ s.body = 0)

\* s[:n]
Prefix(s, n) ==
    IF s.lead >= n THEN Str(n, 0) ELSE Str(s.lead, Min(s.body, n - s.lead))

MAX_TRANSCRIPT_CHARS == 1000
MAX_RESPONSE_CHARS == 5000
MAX_TTS_CHARS == 4096
ELLIPSIS_CHARS == 3

\* Lines 115-118: transcript[:1000] when longer than 1000.
TruncateTranscript(t) ==
    IF StrLen(t) > MAX_TRANSCRIPT_CHARS THEN Prefix(t, MAX_TRANSCRIPT_CHARS) ELSE t

\* Lines 174-177: ai_response[:5000] + "..." when longer than 5000.
TruncateResponse(r) ==
    IF StrLen(r) > MAX_RESPONSE_CHARS
    THEN [Prefix(r, MAX_RESPONSE_CHARS) EXCEPT !.body = @ + ELLIPSIS_CHARS]
    ELSE r

\* TTSRequest.validate_text (routes/tts.py 35-43): what constructing
\* TTSRequest(text=v) does.
validate_text(v) ==
    IF Blank(v) THEN "ValueError"
    ELSE IF StrLen(v) > MAX_TTS_CHARS THEN "ValueError"
    ELSE "ok"

\* What the STT provider may return as response.text, and the placeholder of
\* stt_text_only_mode (fallback.py 132).
TranscriptTexts ==
    { NoText, Str(0, 0), Str(3, 0), Str(0, 5),
      Str(0, MAX_TRANSCRIPT_CHARS + 1), Str(MAX_TRANSCRIPT_CHARS, 5) }
PlaceholderText == Str(0, 59)

\* What the AI provider may return as the completion.
ResponseTexts ==
    { NoText, Str(0, 0), Str(2, 0), Str(0, 5), Str(0, MAX_TTS_CHARS),
      Str(0, MAX_TTS_CHARS + 1), Str(0, MAX_RESPONSE_CHARS + 1) }

\* The value the code's emptiness tests see: None, blank or text.
ClassOf(s) == IF s = NoText THEN "none" ELSE IF Blank(s) THEN "empty" ELSE "text"

\* ---- conversation history
MAX_CONVERSATION_LENGTH == 10

Turn(role, content) == [role |-> role, content |-> content]
\* The i-th entry of the history the client sent.
ClientTurn(i) == Turn("client", Str(0, i))
ClientHistory(n) == [i \in 1..n |-> ClientTurn(i)]

\* A variant of the trimming that keeps the whole list.
LastN_keep_all(seq, n) == seq

\* `if len(seq) > n: seq = seq[-n:]` (lines 137-138, 211-212, 217)
LastN(seq, n) ==
    IF Len(seq) > n THEN SubSeq(seq, Len(seq) - n + 1, Len(seq)) ELSE seq

\* A header value: what base64 / UTF-8 / JSON decoding makes of it.
\*   absent      no header, or an empty one
\*   list        base64 of the UTF-8 JSON text of a list, `entries`
\*   non_list    base64 of the UTF-8 JSON text of an object, number, string or null
\*   bad_json    base64 of UTF-8 text that is not JSON
\*   bad_utf8    base64 of bytes that are not UTF-8
\*   bad_base64  ASCII text that is not base64 (incorrect padding)
\*   non_ascii   text with a character outside ASCII, which is not base64 either
Header(kind, entries) == [kind |-> kind, entries |-> entries]
NoHeader == Header("absent", <<>>)

\* base64.b64encode(json.dumps(list).encode('utf-8')).decode('utf-8')
B64Json(list) == Header("list", list)

HistoryLengths ==
    {0, MAX_CONVERSATION_LENGTH - 1, MAX_CONVERSATION_LENGTH + MaxExtraTurns}
Headers ==
    { Header(k, <<>>) :
        k \in {"absent", "non_list", "bad_json", "bad_utf8", "bad_base64", "non_ascii"} }
    \cup { B64Json(ClientHistory(n)) : n \in HistoryLengths }

\* Lines 128-129: the exception base64.b64decode(..).decode('utf-8') and
\* json.loads raise on the header, "none" when they return.  b64decode raises
\* binascii.Error on bad padding and ValueError on a non-ASCII str.
ParseRaises(h) ==
    IF h.kind = "bad_base64" THEN "binascii.Error"
    ELSE IF h.kind = "non_ascii" THEN "ValueError"
    ELSE IF h.kind = "bad_utf8" THEN "UnicodeDecodeError"
    ELSE IF h.kind = "bad_json" THEN "JSONDecodeError"
    ELSE "none"

\* Line 140: except (base64.binascii.Error, json.JSONDecodeError, UnicodeDecodeError)
conversation_parse_errors == {"binascii.Error", "JSONDecodeError", "UnicodeDecodeError"}

\* The exception of lines 128-129 is not caught at line 140 and leaves the
\* inner try block.
ParseEscapes(h) ==
    ParseRaises(h) \notin ({"none"} \cup conversation_parse_errors)

\* Lines 125-142: the list `messages` after parsing the header.
ParsedMessages(h) ==
    IF h.kind = "list" /\ ParseRaises(h) = "none"
    THEN LastN(h.entries, MAX_CONVERSATION_LENGTH)
    ELSE <<>>

\* Lines 147-153: the argument conversation_thus_far of get_completion.
MessagesB64(m) == IF m = <<>> THEN NoHeader ELSE B64Json(m)

\* A variant of step 4 that appends the assistant turn only.
NewTurns_assistant_only(t, r) == <<Turn("assistant", r)>>

\* Lines 207-208: the two entries appended to `messages`.
NewTurns(t, r) == <<Turn("user", t), Turn("assistant", r)>>

\* The detail of an error response: the fixed text of the step that failed and
\* the classified substrings of the exception message embedded in it.
ErrorDetail(at, excerpt) == [at |-> at, excerpt |-> excerpt]
NoDetail == ErrorDetail("none", {})

PipeIdle ==
    /\ req = [audio_type |-> TRUE, size |-> 1, conversation |-> NoHeader]
    /\ useCustomGPT = FALSE
    /\ messages = <<>> /\ transcript_text = NoText /\ ai_response_text = NoText
    /\ conversation_header = NoHeader
    /\ retryableOnly = [s \in Stages |-> TRUE]
    /\ ttsMode = "openai" /\ ppc = "done" /\ patt = 0 /\ status = 0
    /\ failedAt = "none" /\ cause = "none" /\ detail = NoDetail /\ events = <<>>
    /\ expired = [s \in Stages |-> FALSE]
    /\ transcript = "unset" /\ ai_response = "unset"

PipeInit ==
    /\ req \in [audio_type : BOOLEAN, size : AudioSizes, conversation : Headers]
    /\ messages = <<>>
    /\ transcript_text = NoText
    /\ ai_response_text = NoText
    /\ conversation_header = NoHeader
    /\ retryableOnly = [s \in Stages |-> TRUE]
    /\ useCustomGPT \in BOOLEAN
    /\ ttsMode \in {"disabled", "openai", "edge_only"}
    /\ ppc = "validate"
    /\ patt = 0
    /\ status = 0
    /\ failedAt = "none"
    /\ cause = "none"
    /\ detail = NoDetail
    /\ events = <<>>
    /\ expired = [s \in Stages |-> FALSE]
    /\ transcript = "unset"
    /\ ai_response = "unset"

\* raise HTTPException(status_code=code, detail=f"<text of the stage>: {str(e)[:100]}"):
\* the request ends; excerpt is the part of the exception's message in the detail.
FailWith(code, at, why, excerpt) ==
    /\ status' = code
    /\ failedAt' = at
    /\ cause' = why
    /\ detail' = ErrorDetail(at, excerpt)
    /\ ppc' = "done"

\* raise HTTPException(status_code=code, detail="<fixed text>"), and the handlers
\* of exceptions whose message is a fixed text.
Fail(code, at, why) == FailWith(code, at, why, {})

\* The handlers around a stage: asyncio.TimeoutError -> 504, Exception -> 500.
\* asyncio.TimeoutError is the builtin TimeoutError.
StageExceptionStatus(e) == IF e.type = "TimeoutError" THEN 504 ELSE 500

\* A variant of step 0 that accepts a payload of any size.
ValidationStatus_no_cap(r) ==
    IF ~r.audio_type THEN 400
    ELSE IF r.size = 0 THEN 400
    ELSE 0

\* Step 0 (lines 65-77): the status the validation raises, 0 when it passes.
ValidationStatus(r) ==
    IF ~r.audio_type THEN 400
    ELSE IF r.size = 0 THEN 400
    ELSE IF r.size > MAX_AUDIO_SIZE THEN 413
    ELSE 0

Validate ==
    /\ ppc = "validate"
    /\ IF ValidationStatus(req) # 0
       THEN Fail(ValidationStatus(req), "validate", "input")
       ELSE /\ ppc' = "stt_convert"
            /\ UNCHANGED <<status, failedAt, cause, detail>>
    /\ UNCHANGED <<req, useCustomGPT, ttsMode, patt, events, expired, transcript, ai_response>>
    /\ UNCHANGED <<messages, transcript_text, ai_response_text, conversation_header, retryableOnly>>
    /\ UNCHANGED notPipe

\* ---- deadlines: asyncio.wait_for(stage, timeout=STT_TIMEOUT | AI_TIMEOUT | TTS_TIMEOUT)
StageOf(pos) ==
    IF pos \in {"stt_convert", "stt_call", "stt_sleep", "stt_fallback"} THEN "stt"
    ELSE IF pos \in {"ai_call", "ai_sleep"} THEN "ai"
    ELSE IF pos \in {"tts_call", "tts_sleep", "tts_edge"} THEN "tts"
    ELSE "none"

\* Positions where a stage spends time: a provider call, a backoff sleep, ffmpeg.
TimedPositions ==
    {"stt_convert", "stt_call", "stt_sleep", "ai_call", "ai_sleep",
     "tts_call", "tts_sleep", "tts_edge"}

\* Positions where the stage holds the event loop: ffmpeg's run() in transcribe
\* (stt.py 67-72) and, with USE_CUSTOMGPT, requests.post and time.sleep inside
\* retry_sync (ai.py 109-122, 377).  The timer of wait_for cannot run there; a
\* stage that finishes without a later await returns its own outcome.
Blocking(pos) ==
    \/ pos = "stt_convert"
    \/ (useCustomGPT /\ pos \in {"ai_call", "ai_sleep"})

\* Guard of a step that resumes a stage after an await.
Resumes(pos) == ppc = pos /\ (Blocking(pos) \/ ~expired[StageOf(pos)])

\* The stage's deadline passes while the stage is running.
DeadlineExpires ==
    /\ ppc \in TimedPositions
    /\ ~expired[StageOf(ppc)]
    /\ expired' = [expired EXCEPT ![StageOf(ppc)] = TRUE]
    /\ UNCHANGED <<req, useCustomGPT, ttsMode, ppc, patt, status, failedAt, cause, detail,
                   events, transcript, ai_response>>
    /\ UNCHANGED <<messages, transcript_text, ai_response_text, conversation_header, retryableOnly>>
    /\ UNCHANGED notPipe

\* wait_for cancels the stage at its await and raises TimeoutError: 504.
StageCancelled ==
    /\ ppc \in TimedPositions
    /\ expired[StageOf(ppc)]
    /\ ~Blocking(ppc)
    /\ Fail(504, StageOf(ppc), "deadline")
    /\ UNCHANGED <<req, useCustomGPT, ttsMode, patt, events, expired, transcript, ai_response>>
    /\ UNCHANGED <<messages, transcript_text, ai_response_text, conversation_header, retryableOnly>>
    /\ UNCHANGED notPipe

\* ---- step 1: transcribe (stt.py 42-106) under STT_TIMEOUT
\* ffmpeg converts the upload; a failure leaves transcribe as an exception.
SttConvert ==
    /\ ppc = "stt_convert"
    /\ events' = Append(events, StageEnter("stt"))
    /\ \/ /\ ppc' = "stt_call"
          /\ patt' = 0
          /\ UNCHANGED <<status, failedAt, cause, detail>>
       \/ /\ Fail(500, "stt", "convert")
          /\ patt' = patt
    /\ UNCHANGED <<req, useCustomGPT, ttsMode, expired, transcript, ai_response>>
    /\ UNCHANGED <<messages, transcript_text, ai_response_text, conversation_header, retryableOnly>>
    /\ UNCHANGED notPipe

\* _transcribe_internal returns response.text; the chain succeeds at level 0.
\* A None text fails the log line of inference.py line 98 (TypeError): 500.
SttCallOk ==
    /\ Resumes("stt_call")
    /\ \E text \in TranscriptTexts :
         /\ transcript_text' = text
         /\ transcript' = ClassOf(text)
         /\ events' = events \o <<ProviderCall("stt"), StageReturn("stt")>>
         /\ IF text = NoText
            THEN Fail(500, "stt", "none_result")
            ELSE /\ ppc' = "stt_check"
                 /\ UNCHANGED <<status, failedAt, cause, detail>>
    /\ UNCHANGED <<req, useCustomGPT, ttsMode, patt, expired, ai_response>>
    /\ UNCHANGED <<messages, ai_response_text, conversation_header, retryableOnly>>
    /\ UNCHANGED notPipe

\* _transcribe_internal raises inside retry_async(config=RETRY_CONFIG_STT).
SttCallFail ==
    /\ Resumes("stt_call")
    /\ \E pe \in ProviderErrors :
         /\ events' = Append(events, ProviderCall("stt"))
         /\ retryableOnly' = [retryableOnly EXCEPT !["stt"] = @ /\ should_retry(pe)]
         /\ ppc' = IF AfterFailure(RETRY_CONFIG_STT, patt, Exc(pe.type, pe.msg, patt)) = "sleep"
                   THEN "stt_sleep" ELSE "stt_fallback"
    /\ UNCHANGED <<req, useCustomGPT, ttsMode, patt, status, failedAt, cause, detail,
                   expired, transcript, ai_response>>
    /\ UNCHANGED <<messages, transcript_text, ai_response_text, conversation_header>>
    /\ UNCHANGED notPipe

SttSleepDone ==
    /\ Resumes("stt_sleep")
    /\ patt' = patt + 1
    /\ ppc' = "stt_call"
    /\ UNCHANGED <<req, useCustomGPT, ttsMode, status, failedAt, cause, detail, events,
                   expired, transcript, ai_response>>
    /\ UNCHANGED <<messages, transcript_text, ai_response_text, conversation_header, retryableOnly>>
    /\ UNCHANGED notPipe

\* execute_fallback_chain goes through STT_FALLBACK_CHAIN: stt_text_only_mode
\* returns its placeholder, so the chain succeeds at level 1.
SttFallback ==
    /\ ppc = "stt_fallback"
    /\ events' = events \o <<FallbackCall("stt", STT_FALLBACK_CHAIN[1]), StageReturn("stt")>>
    /\ transcript' = "placeholder"
    /\ transcript_text' = PlaceholderText
    /\ ppc' = "stt_check"
    /\ UNCHANGED <<req, useCustomGPT, ttsMode, patt, status, failedAt, cause, detail,
                   expired, ai_response>>
    /\ UNCHANGED <<messages, ai_response_text, conversation_header, retryableOnly>>
    /\ UNCHANGED notPipe

\* Lines 111-118: an empty or whitespace-only transcript is a 400; a transcript
\* that passes is then cut to its first 1000 characters.
SttCheck ==
    /\ ppc = "stt_check"
    /\ IF Blank(transcript_text)
       THEN /\ Fail(400, "stt", "empty")
            /\ patt' = patt
            /\ UNCHANGED <<transcript_text, events>>
       ELSE /\ ppc' = "ai_start"
            /\ patt' = 0
            /\ transcript_text' = TruncateTranscript(transcript_text)
            /\ events' = IF StrLen(transcript_text) > MAX_TRANSCRIPT_CHARS
                         THEN Append(events, Truncated("stt")) ELSE events
            /\ UNCHANGED <<status, failedAt, cause, detail>>
    /\ UNCHANGED <<req, useCustomGPT, ttsMode, expired, transcript, ai_response>>
    /\ UNCHANGED <<messages, ai_response_text, conversation_header, retryableOnly>>
    /\ UNCHANGED notPipe

\* ---- step 2: get_completion (ai.py 311-513) under AI_TIMEOUT
\* Lines 123-156 and ai.py 311-326: the header is parsed into `messages`, then
\* get_completion is called and rejects an empty prompt with a ValueError.  An
\* exception that leaves either is caught at lines 166-168: 500.
AiStart ==
    /\ ppc = "ai_start"
    /\ IF ParseEscapes(req.conversation)
       THEN /\ Fail(500, "ai", "header")
            /\ UNCHANGED <<messages, events>>
       ELSE /\ messages' = ParsedMessages(req.conversation)
            /\ events' = Append(events, StageEnter("ai"))
            /\ IF is_empty(transcript_text)
               THEN Fail(500, "ai", "empty_prompt")
               ELSE /\ ppc' = "ai_call"
                    /\ UNCHANGED <<status, failedAt, cause, detail>>
    /\ UNCHANGED <<req, useCustomGPT, ttsMode, patt, expired, transcript, ai_response>>
    /\ UNCHANGED <<transcript_text, ai_response_text, conversation_header, retryableOnly>>
    /\ UNCHANGED notPipe

\* The provider answers: CustomGPT through retry_sync (ai.py 96-122), OpenAI
\* through retry_async (ai.py 125-141).  The OpenAI content may be None, which
\* fails the log line of inference.py line 161 (TypeError): 500.
AiCallOk ==
    /\ Resumes("ai_call")
    /\ \E text \in ResponseTexts :
         /\ (useCustomGPT => (text # NoText /\ text.lead = 0))
         /\ ai_response_text' = text
         /\ ai_response' = ClassOf(text)
         /\ events' = events \o <<ProviderCall("ai"), StageReturn("ai")>>
         /\ IF text = NoText
            THEN Fail(500, "ai", "none_result")
            ELSE /\ ppc' = "ai_check"
                 /\ UNCHANGED <<status, failedAt, cause, detail>>
    /\ UNCHANGED <<req, useCustomGPT, ttsMode, patt, expired, transcript>>
    /\ UNCHANGED <<messages, transcript_text, conversation_header, retryableOnly>>
    /\ UNCHANGED notPipe

\* A variant of the AI stage's failure path that goes on to the next stage with
\* a canned reply instead of raising.
AiRaise_swallow(e) ==
    /\ ai_response' = "text"
    /\ ai_response_text' = Str(0, 5)
    /\ ppc' = "ai_check"
    /\ UNCHANGED <<status, failedAt, cause, detail>>

\* The retry loop of the AI stage raises: get_completion has no handler and
\* never calls execute_fallback_chain, so the exception reaches lines 163-168,
\* where the 500 is raised with detail f"AI processing failed: {str(e)[:100]}".
AiRaise(e) ==
    /\ FailWith(StageExceptionStatus(e), "ai", "provider",
                IF StageExceptionStatus(e) = 500 THEN e.msg ELSE {})
    /\ ai_response' = ai_response
    /\ ai_response_text' = ai_response_text

\* The provider call raises inside the retry loop (config=RETRY_CONFIG_AI).
AiCallFail ==
    /\ Resumes("ai_call")
    /\ \E pe \in ProviderErrors :
         /\ (useCustomGPT => pe.type = "Exception")
         /\ events' = Append(events, ProviderCall("ai"))
         /\ retryableOnly' = [retryableOnly EXCEPT !["ai"] = @ /\ should_retry(pe)]
         /\ IF AfterFailure(RETRY_CONFIG_AI, patt, Exc(pe.type, pe.msg, patt)) = "sleep"
            THEN /\ ppc' = "ai_sleep"
                 /\ UNCHANGED <<status, failedAt, cause, detail, ai_response, ai_response_text>>
            ELSE AiRaise(pe)
    /\ UNCHANGED <<req, useCustomGPT, ttsMode, patt, expired, transcript>>
    /\ UNCHANGED <<messages, transcript_text, conversation_header>>
    /\ UNCHANGED notPipe

AiSleepDone ==
    /\ Resumes("ai_sleep")
    /\ patt' = patt + 1
    /\ ppc' = "ai_call"
    /\ UNCHANGED <<req, useCustomGPT, ttsMode, status, failedAt, cause, detail, events,
                   expired, transcript, ai_response>>
    /\ UNCHANGED <<messages, transcript_text, ai_response_text, conversation_header, retryableOnly>>
    /\ UNCHANGED notPipe

\* A variant of the test of line 171 that rejects the empty string only.
EmptyReply_no_strip(r) == StrLen(r) <= 0

\* Line 171: `not ai_response or not ai_response.strip()`
EmptyReply(r) == Blank(r)

\* Lines 170-177: an empty or whitespace-only reply is a 500; a reply that
\* passes is cut to its first 5000 characters, followed by "...".
AiCheck ==
    /\ ppc = "ai_check"
    /\ IF EmptyReply(ai_response_text)
       THEN /\ Fail(500, "ai", "empty")
            /\ UNCHANGED <<ai_response_text, events>>
       ELSE /\ ppc' = "tts_start"
            /\ ai_response_text' = TruncateResponse(ai_response_text)
            /\ events' = IF StrLen(ai_response_text) > MAX_RESPONSE_CHARS
                         THEN Append(events, Truncated("ai")) ELSE events
            /\ UNCHANGED <<status, failedAt, cause, detail>>
    /\ UNCHANGED <<req, useCustomGPT, ttsMode, patt, expired, transcript, ai_response>>
    /\ UNCHANGED <<messages, transcript_text, conversation_header, retryableOnly>>
    /\ UNCHANGED notPipe

\* ---- step 3: text_to_speech (routes/tts.py 47-205) under TTS_TIMEOUT
tts_auth_keywords == {"401", "authentication", "unauthorized"}
tts_retry_keywords ==
    {"timeout", "connection", "network", "503", "502", "504", "429", "rate limit"}

\* routes/tts.py 99-118: the except block of the inline loop `for attempt in range(3)`.
TtsAfterFailure(a, e) ==
    IF e.msg \cap tts_auth_keywords # {} THEN "break"
    ELSE IF a < 2 /\ e.msg \cap tts_retry_keywords # {} THEN "sleep"
    ELSE "break"

\* inference.py 187: TTSRequest(text=ai_response) validates the reply; its
\* ValueError is caught at line 201: 500.  Then routes/tts.py 60-78: capability
\* check and choice of the provider.  The HTTPException 503 of a disabled TTS is
\* caught by inference.py line 201 and becomes a 500.
TtsStart ==
    /\ ppc = "tts_start"
    /\ IF validate_text(ai_response_text) # "ok"
       THEN /\ Fail(500, "tts", "validation")
            /\ UNCHANGED <<patt, events>>
       ELSE /\ events' = Append(events, StageEnter("tts"))
            /\ IF ttsMode = "disabled"
               THEN /\ Fail(500, "tts", "config")
                    /\ patt' = patt
               ELSE /\ ppc' = IF ttsMode = "openai" THEN "tts_call" ELSE "tts_edge"
                    /\ patt' = 0
                    /\ UNCHANGED <<status, failedAt, cause, detail>>
    /\ UNCHANGED <<req, useCustomGPT, ttsMode, expired, transcript, ai_response>>
    /\ UNCHANGED <<messages, transcript_text, ai_response_text, conversation_header, retryableOnly>>
    /\ UNCHANGED notPipe

\* OpenAI TTS opens the streaming response.
TtsCallOk ==
    /\ Resumes("tts_call")
    /\ events' = events \o <<ProviderCall("tts"), StageReturn("tts")>>
    /\ ppc' = "build"
    /\ UNCHANGED <<req, useCustomGPT, ttsMode, patt, status, failedAt, cause, detail,
                   expired, transcript, ai_response>>
    /\ UNCHANGED <<messages, transcript_text, ai_response_text, conversation_header, retryableOnly>>
    /\ UNCHANGED notPipe

TtsCallFail ==
    /\ Resumes("tts_call")
    /\ \E pe \in ProviderErrors :
         /\ events' = Append(events, ProviderCall("tts"))
         /\ retryableOnly' = [retryableOnly EXCEPT !["tts"] = @ /\ should_retry(pe)]
         /\ ppc' = IF TtsAfterFailure(patt, pe) = "sleep" THEN "tts_sleep" ELSE "tts_edge"
    /\ UNCHANGED <<req, useCustomGPT, ttsMode, patt, status, failedAt, cause, detail,
                   expired, transcript, ai_response>>
    /\ UNCHANGED <<messages, transcript_text, ai_response_text, conversation_header>>
    /\ UNCHANGED notPipe

TtsSleepDone ==
    /\ Resumes("tts_sleep")
    /\ patt' = patt + 1
    /\ ppc' = "tts_call"
    /\ UNCHANGED <<req, useCustomGPT, ttsMode, status, failedAt, cause, detail, events,
                   expired, transcript, ai_response>>
    /\ UNCHANGED <<messages, transcript_text, ai_response_text, conversation_header, retryableOnly>>
    /\ UNCHANGED notPipe

\* Lines 120-131: _edge_tts_to_speech is the only fallback tried; its failure
\* is an HTTPException that inference.py turns into a 500.
TtsEdge ==
    /\ Resumes("tts_edge")
    /\ \/ /\ events' = events \o <<FallbackCall("tts", "Edge TTS"), StageReturn("tts")>>
          /\ ppc' = "build"
          /\ UNCHANGED <<status, failedAt, cause, detail>>
       \/ /\ events' = Append(events, FallbackCall("tts", "Edge TTS"))
          /\ Fail(500, "tts", "provider")
    /\ UNCHANGED <<req, useCustomGPT, ttsMode, patt, expired, transcript, ai_response>>
    /\ UNCHANGED <<messages, transcript_text, ai_response_text, conversation_header, retryableOnly>>
    /\ UNCHANGED notPipe

\* ---- step 4 (lines 205-259): the two new entries are appended to `messages`,
\* the list is trimmed, its last two entries are encoded into the X-Conversation
\* header, and the StreamingResponse is returned.
Build ==
    /\ ppc = "build"
    /\ status' = 200
    /\ ppc' = "done"
    /\ messages' = LastN(messages \o NewTurns(transcript_text, ai_response_text),
                         MAX_CONVERSATION_LENGTH)
    /\ conversation_header' = B64Json(LastN(messages', 2))
    /\ UNCHANGED <<req, useCustomGPT, ttsMode, patt, failedAt, cause, detail, events,
                   expired, transcript, ai_response>>
    /\ UNCHANGED <<transcript_text, ai_response_text, retryableOnly>>
    /\ UNCHANGED notPipe

(***************************************************************************)
(* Temporary files of the TTS fallback candidates:                          *)
(*   tts_edge_fallback   (fallback.py 174-218)                              *)
(*   tts_gtts_fallback   (fallback.py 221-265)                              *)
(*   _edge_tts_to_speech (tts.py 130-140), called by text_to_speech         *)
(*                       (routes/tts.py 120-131)                            *)
(* Names come from tempfile.NamedTemporaryFile and uuid.uuid4(): each call  *)
(* yields a name no other call yields.                                      *)
(***************************************************************************)
TempRuns == 1..MaxTempRuns
TempKinds == {"tts_edge_fallback", "tts_gtts_fallback", "_edge_tts_to_speech"}
NoPath == 0
TempNames == 1..MaxTempRuns

TempIdle ==
    /\ tkind = [r \in TempRuns |-> "tts_edge_fallback"]
    /\ tpc = [r \in TempRuns |-> "done"]
    /\ tpath = [r \in TempRuns |-> NoPath]
    /\ tout = [r \in TempRuns |-> "none"]
    /\ files = {} /\ created = {} /\ pending = {}
    /\ removed = [p \in TempNames |-> 0]

TempInit ==
    /\ tkind \in [TempRuns -> TempKinds]
    /\ tpc = [r \in TempRuns |-> "start"]
    /\ tpath = [r \in TempRuns |-> NoPath]
    /\ tout = [r \in TempRuns |-> "none"]
    /\ files = {}
    /\ created = {}
    /\ pending = {}
    /\ removed = [p \in TempNames |-> 0]

\* tempfile.NamedTemporaryFile / uuid.uuid4(): a name not handed out before.
FreshName(used) == CHOOSE p \in TempNames : p \notin used

UsedNames == { tpath[r] : r \in TempRuns } \ {NoPath}

\* fallback.py 188-190 / 235-237: NamedTemporaryFile(delete=False) creates the
\* file and the candidate keeps its name.
TempCreate ==
    \E r \in TempRuns :
        /\ tpc[r] = "start"
        /\ tkind[r] \in {"tts_edge_fallback", "tts_gtts_fallback"}
        /\ LET p == FreshName(UsedNames) IN
            /\ tpath' = [tpath EXCEPT ![r] = p]
            /\ files' = files \cup {p}
            /\ created' = created \cup {p}
        /\ tpc' = [tpc EXCEPT ![r] = "save"]
        /\ UNCHANGED <<tkind, tout, removed, pending>>
        /\ UNCHANGED notTemp

\* tts.py 134: filepath = f"/tmp/{uuid.uuid4()}.mp3"; nothing is created yet.
TempName ==
    \E r \in TempRuns :
        /\ tpc[r] = "start"
        /\ tkind[r] = "_edge_tts_to_speech"
        /\ tpath' = [tpath EXCEPT ![r] = FreshName(UsedNames)]
        /\ tpc' = [tpc EXCEPT ![r] = "save"]
        /\ UNCHANGED <<tkind, tout, files, created, removed, pending>>
        /\ UNCHANGED notTemp

\* communicate.save(path) / tts.save(path) returns: the audio is in the file.
TempSaveOk ==
    \E r \in TempRuns :
        /\ tpc[r] = "save"
        /\ files' = files \cup {tpath[r]}
        /\ created' = created \cup {tpath[r]}
        /\ tpc' = [tpc EXCEPT ![r] = "saved"]
        /\ UNCHANGED <<tkind, tpath, tout, removed, pending>>
        /\ UNCHANGED notTemp

\* save raises (the provider fails): the exception leaves the candidate, which
\* has no handler that removes the file.  In _edge_tts_to_speech the file
\* exists by then if save had opened it before failing.
TempSaveFail ==
    \E r \in TempRuns, opened \in BOOLEAN :
        /\ tpc[r] = "save"
        /\ (tkind[r] # "_edge_tts_to_speech" => opened)
        /\ files' = IF opened THEN files \cup {tpath[r]} ELSE files
        /\ created' = IF opened THEN created \cup {tpath[r]} ELSE created
        /\ tpc' = [tpc EXCEPT ![r] = "done"]
        /\ tout' = [tout EXCEPT ![r] = "failed"]
        /\ UNCHANGED <<tkind, tpath, removed, pending>>
        /\ UNCHANGED notTemp

\* The stage deadline cancels the candidate at `await communicate.save(..)`:
\* CancelledError leaves the candidate like any exception.  gTTS's save is a
\* blocking call and cannot be cancelled.
TempSaveCancelled ==
    \E r \in TempRuns, opened \in BOOLEAN :
        /\ tpc[r] = "save"
        /\ tkind[r] \in {"tts_edge_fallback", "_edge_tts_to_speech"}
        /\ (tkind[r] # "_edge_tts_to_speech" => opened)
        /\ files' = IF opened THEN files \cup {tpath[r]} ELSE files
        /\ created' = IF opened THEN created \cup {tpath[r]} ELSE created
        /\ tpc' = [tpc EXCEPT ![r] = "done"]
        /\ tout' = [tout EXCEPT ![r] = "cancelled"]
        /\ UNCHANGED <<tkind, tpath, removed, pending>>
        /\ UNCHANGED notTemp

\* fallback.py 196-214 / 243-261: the audio is read, os.remove(temp_path), and
\* the data is returned.
TempReadRemove ==
    \E r \in TempRuns :
        /\ tpc[r] = "saved"
        /\ tkind[r] \in {"tts_edge_fallback", "tts_gtts_fallback"}
        /\ tpath[r] \in files
        /\ files' = files \ {tpath[r]}
        /\ removed' = [removed EXCEPT ![tpath[r]] = @ + 1]
        /\ tpc' = [tpc EXCEPT ![r] = "done"]
        /\ tout' = [tout EXCEPT ![r] = "ok"]
        /\ UNCHANGED <<tkind, tpath, created, pending>>
        /\ UNCHANGED notTemp

\* tts.py 137-140: background_tasks.add_task(os.remove, filepath); return filepath.
TempAddTask ==
    \E r \in TempRuns :
        /\ tpc[r] = "saved"
        /\ tkind[r] = "_edge_tts_to_speech"
        /\ pending' = pending \cup {tpath[r]}
        /\ tpc' = [tpc EXCEPT ![r] = "returned"]
        /\ tout' = [tout EXCEPT ![r] = "ok"]
        /\ UNCHANGED <<tkind, tpath, files, created, removed>>
        /\ UNCHANGED notTemp

\* The response has been streamed (routes/tts.py 137-198) and the background
\* task runs os.remove(filepath).
TempBackground ==
    \E r \in TempRuns :
        /\ tpc[r] = "returned"
        /\ tpath[r] \in pending
        /\ pending' = pending \ {tpath[r]}
        /\ files' = files \ {tpath[r]}
        /\ removed' = IF tpath[r] \in files
                      THEN [removed EXCEPT ![tpath[r]] = @ + 1] ELSE removed
        /\ tpc' = [tpc EXCEPT ![r] = "done"]
        /\ UNCHANGED <<tkind, tpath, tout, created>>
        /\ UNCHANGED notTemp

(***************************************************************************)
(* Concurrent requests on the one event loop of the server.  Each task runs *)
(* a provider call under a retry loop: the CustomGPT call of get_completion *)
(* under retry_sync (ai.py 96-122, called without await or executor at      *)
(* ai.py 377), every other provider call under retry_async.  requests.post  *)
(* and time.sleep return only when done and keep the loop's thread          *)
(* meanwhile; an awaited call or asyncio.sleep gives the thread back.       *)
(***************************************************************************)
LoopTasks == 1..MaxLoopTasks
NoTask == 0

LoopIdle ==
    /\ lkind = [t \in LoopTasks |-> "retry_async"]
    /\ lpc = [t \in LoopTasks |-> "done"]
    /\ latt = [t \in LoopTasks |-> 0]
    /\ holder = NoTask

LoopInit ==
    /\ lkind \in [LoopTasks -> {"retry_sync", "retry_async"}]
    /\ lpc = [t \in LoopTasks |-> "ready"]
    /\ latt = [t \in LoopTasks |-> 0]
    /\ holder = NoTask

\* The loop can run a step of task t: no other task occupies the thread.
CanRun(t) == holder \in {NoTask, t}

\* retry_sync line 289 is time.sleep(delay), retry_async line 219 is
\* await asyncio.sleep(delay); requests.post (ai.py 112) blocks likewise.
BlocksLoop(kind) == kind = "retry_sync"

\* func(*args, **kwargs) is called for attempt latt[t].
LoopCall ==
    \E t \in LoopTasks :
        /\ lpc[t] = "ready"
        /\ CanRun(t)
        /\ lpc' = [lpc EXCEPT ![t] = "call"]
        /\ holder' = IF BlocksLoop(lkind[t]) THEN t ELSE holder
        /\ UNCHANGED <<lkind, latt>>
        /\ UNCHANGED notLoop

\* The call returns: the retry loop returns its result.
LoopCallOk ==
    \E t \in LoopTasks :
        /\ lpc[t] = "call"
        /\ CanRun(t)
        /\ lpc' = [lpc EXCEPT ![t] = "done"]
        /\ holder' = IF holder = t THEN NoTask ELSE holder
        /\ UNCHANGED <<lkind, latt>>
        /\ UNCHANGED notLoop

\* The call raises: the except block re-raises or sleeps for the backoff delay.
LoopCallFail ==
    \E t \in LoopTasks, pe \in ProviderErrors :
        /\ lpc[t] = "call"
        /\ CanRun(t)
        /\ IF AfterFailure(RETRY_CONFIG_AI, latt[t], Exc(pe.type, pe.msg, latt[t])) = "sleep"
           THEN /\ lpc' = [lpc EXCEPT ![t] = "sleep"]
                /\ holder' = IF BlocksLoop(lkind[t]) THEN t ELSE NoTask
           ELSE /\ lpc' = [lpc EXCEPT ![t] = "done"]
                /\ holder' = IF holder = t THEN NoTask ELSE holder
        /\ UNCHANGED <<lkind, latt>>
        /\ UNCHANGED notLoop

\* The sleep is over: the for loop takes its next iteration.  After time.sleep
\* the task goes on without giving the thread back.
LoopWake ==
    \E t \in LoopTasks :
        /\ lpc[t] = "sleep"
        /\ CanRun(t)
        /\ latt' = [latt EXCEPT ![t] = @ + 1]
        /\ lpc' = [lpc EXCEPT ![t] = "ready"]
        /\ UNCHANGED <<lkind, holder>>
        /\ UNCHANGED notLoop

(***************************************************************************)
(* ai.py 23-25, 144-184: customgpt_sessions and _get_or_create_session_id,  *)
(* called by get_completion (ai.py 337) with conversation_thus_far or "".   *)
(* The history text of a conversation is known by the conversation and its  *)
(* length; two conversations have the same history text only when both      *)
(* histories are empty.  hashlib.md5 maps different texts to different keys *)
(* and uuid.uuid4() yields a new identifier at every call.                  *)
(***************************************************************************)
SessRequests == 1..MaxSessRequests
Conversations == 1..MaxConversations
NoSession == 0

\* conversation_thus_far of request q: falsy when the history is empty.
HistoryText(q) == [owner |-> IF shist[q] = 0 THEN 0 ELSE sconv[q], n |-> shist[q]]

\* Lines 165-170: the key under which the session is cached.
NEW_CONVERSATION == [owner |-> 0, n |-> 0]
conversation_key(text) == IF text.n = 0 THEN NEW_CONVERSATION ELSE text

SessIdle ==
    /\ sconv = [q \in SessRequests |-> 1]
    /\ shist = [q \in SessRequests |-> 0]
    /\ spc = [q \in SessRequests |-> "done"]
    /\ session_id = [q \in SessRequests |-> NoSession]
    /\ customgpt_sessions = {}
    /\ served = <<>>

SessInit ==
    /\ sconv \in [SessRequests -> Conversations]
    /\ shist \in [SessRequests -> 0..MaxHistory]
    /\ spc = [q \in SessRequests |-> "pending"]
    /\ session_id = [q \in SessRequests |-> NoSession]
    /\ customgpt_sessions = {}
    /\ served = <<>>

CachedKeys == { item.key : item \in customgpt_sessions }
CachedSession(key) == (CHOOSE item \in customgpt_sessions : item.key = key).sid

\* str(uuid.uuid4()): an identifier no earlier call returned.
NewSessionId == Cardinality(customgpt_sessions) + 1

\* Lines 172-177: the key is not cached; a new session is created and stored.
SessCreate ==
    \E q \in SessRequests :
        LET key == conversation_key(HistoryText(q)) IN
        /\ spc[q] = "pending"
        /\ key \notin CachedKeys
        /\ session_id' = [session_id EXCEPT ![q] = NewSessionId]
        /\ customgpt_sessions' = customgpt_sessions \cup {[key |-> key, sid |-> NewSessionId]}
        /\ spc' = [spc EXCEPT ![q] = "done"]
        /\ served' = Append(served, q)
        /\ UNCHANGED <<sconv, shist>>
        /\ UNCHANGED notSess

\* Lines 179-182: the key is cached; the stored session is reused.
SessReuse ==
    \E q \in SessRequests :
        LET key == conversation_key(HistoryText(q)) IN
        /\ spc[q] = "pending"
        /\ key \in CachedKeys
        /\ session_id' = [session_id EXCEPT ![q] = CachedSession(key)]
        /\ spc' = [spc EXCEPT ![q] = "done"]
        /\ served' = Append(served, q)
        /\ UNCHANGED <<sconv, shist, customgpt_sessions>>
        /\ UNCHANGED notSess

(***************************************************************************)
(* routes/tts.py 47-198: the streaming response text_to_speech opens and    *)
(* the generator audio_stream that closes it, and inference.py 254-259,     *)
(* which hands the generator (body_iterator) to the StreamingResponse it    *)
(* returns.  The body of an async generator, its finally block included,    *)
(* runs only once the generator has been started.                           *)
(***************************************************************************)
StreamRequests == 1..MaxStreams

StreamIdle ==
    /\ stpc = [q \in StreamRequests |-> "ended"]
    /\ streaming_response = [q \in StreamRequests |-> "None"]
    /\ use_file_streaming = [q \in StreamRequests |-> FALSE]
    /\ total_chunks = [q \in StreamRequests |-> 1]
    /\ chunk_count = [q \in StreamRequests |-> 0]
    /\ closes = [q \in StreamRequests |-> 0]
    /\ outcome = [q \in StreamRequests |-> "none"]

StreamInit ==
    /\ stpc = [q \in StreamRequests |-> "tts"]
    /\ streaming_response = [q \in StreamRequests |-> "None"]
    /\ use_file_streaming = [q \in StreamRequests |-> FALSE]
    /\ total_chunks \in [StreamRequests -> 1..MaxChunks]
    /\ chunk_count = [q \in StreamRequests |-> 0]
    /\ closes = [q \in StreamRequests |-> 0]
    /\ outcome = [q \in StreamRequests |-> "none"]

\* routes/tts.py 177-184: the finally block of audio_stream.
StreamFinally(q) ==
    IF streaming_response[q] # "None" /\ ~use_file_streaming[q]
    THEN /\ streaming_response' = [streaming_response EXCEPT ![q] = "closed"]
         /\ closes' = [closes EXCEPT ![q] = @ + 1]
    ELSE UNCHANGED <<streaming_response, closes>>

\* routes/tts.py 86-97: with_streaming_response.create(..).__aenter__() returns
\* the open streaming response; text_to_speech returns the StreamingResponse
\* around audio_stream().
StreamOpen ==
    \E q \in StreamRequests :
        /\ stpc[q] = "tts"
        /\ streaming_response' = [streaming_response EXCEPT ![q] = "open"]
        /\ stpc' = [stpc EXCEPT ![q] = "returned"]
        /\ UNCHANGED <<use_file_streaming, total_chunks, chunk_count, closes, outcome>>
        /\ UNCHANGED notStream

\* routes/tts.py 120-127: OpenAI TTS failed or is not configured and Edge TTS
\* wrote the audio to a file.
StreamEdge ==
    \E q \in StreamRequests :
        /\ stpc[q] = "tts"
        /\ use_file_streaming' = [use_file_streaming EXCEPT ![q] = TRUE]
        /\ stpc' = [stpc EXCEPT ![q] = "returned"]
        /\ UNCHANGED <<streaming_response, total_chunks, chunk_count, closes, outcome>>
        /\ UNCHANGED notStream

\* routes/tts.py 128-131: Edge TTS failed as well; text_to_speech raises.
StreamTtsFail ==
    \E q \in StreamRequests :
        /\ stpc[q] = "tts"
        /\ stpc' = [stpc EXCEPT ![q] = "ended"]
        /\ outcome' = [outcome EXCEPT ![q] = "failed"]
        /\ UNCHANGED <<streaming_response, use_file_streaming, total_chunks, chunk_count, closes>>
        /\ UNCHANGED notStream

\* The server starts to iterate the body: audio_stream runs up to its first yield.
StreamStart ==
    \E q \in StreamRequests :
        /\ stpc[q] = "returned"
        /\ stpc' = [stpc EXCEPT ![q] = "streaming"]
        /\ chunk_count' = [chunk_count EXCEPT ![q] = 1]
        /\ UNCHANGED <<streaming_response, use_file_streaming, total_chunks, closes, outcome>>
        /\ UNCHANGED notStream

\* The response is dropped before its body is iterated (the request fails
\* after text_to_speech returned, or the client is gone before the first
\* chunk): the generator is discarded unstarted and none of its code runs.
StreamNeverIterated ==
    \E q \in StreamRequests :
        /\ stpc[q] = "returned"
        /\ stpc' = [stpc EXCEPT ![q] = "ended"]
        /\ outcome' = [outcome EXCEPT ![q] = "never_iterated"]
        /\ UNCHANGED <<streaming_response, use_file_streaming, total_chunks, chunk_count, closes>>
        /\ UNCHANGED notStream

\* The client takes the chunk and the generator yields the next one.
StreamChunk ==
    \E q \in StreamRequests :
        /\ stpc[q] = "streaming"
        /\ chunk_count[q] < total_chunks[q]
        /\ chunk_count' = [chunk_count EXCEPT ![q] = @ + 1]
        /\ UNCHANGED <<stpc, streaming_response, use_file_streaming, total_chunks, closes, outcome>>
        /\ UNCHANGED notStream

\* The client took the last chunk: the loop ends and the finally block runs.
StreamDrain ==
    \E q \in StreamRequests :
        /\ stpc[q] = "streaming"
        /\ chunk_count[q] = total_chunks[q]
        /\ StreamFinally(q)
        /\ stpc' = [stpc EXCEPT ![q] = "ended"]
        /\ outcome' = [outcome EXCEPT ![q] = "drained"]
        /\ UNCHANGED <<use_file_streaming, total_chunks, chunk_count>>
        /\ UNCHANGED notStream

\* The client goes away while a chunk is pending: the generator is closed at
\* its yield and the finally block runs.
StreamAbort ==
    \E q \in StreamRequests :
        /\ stpc[q] = "streaming"
        /\ StreamFinally(q)
        /\ stpc' = [stpc EXCEPT ![q] = "ended"]
        /\ outcome' = [outcome EXCEPT ![q] = "aborted"]
        /\ UNCHANGED <<use_file_streaming, total_chunks, chunk_count>>
        /\ UNCHANGED notStream

(***************************************************************************)
(* stt.py 42-106: the two temporary files of transcribe, temp_filepath and  *)
(* converted_filepath, both named with uuid.uuid4() and therefore private   *)
(* to the call.                                                             *)
(***************************************************************************)
SttRuns == 1..MaxSttRuns
SttFiles == {"temp_filepath", "converted_filepath"}

SttIdle ==
    /\ trpc = [r \in SttRuns |-> "done"]
    /\ trfiles = [r \in SttRuns |-> {}]
    /\ trcreated = [r \in SttRuns |-> {}]
    /\ trremoved = [r \in SttRuns |-> [f \in SttFiles |-> 0]]
    /\ trmissing = [r \in SttRuns |-> {}]
    /\ trbound = [r \in SttRuns |-> FALSE]
    /\ trexit = [r \in SttRuns |-> "none"]

SttInit ==
    /\ trpc = [r \in SttRuns |-> "write"]
    /\ trfiles = [r \in SttRuns |-> {}]
    /\ trcreated = [r \in SttRuns |-> {}]
    /\ trremoved = [r \in SttRuns |-> [f \in SttFiles |-> 0]]
    /\ trmissing = [r \in SttRuns |-> {}]
    /\ trbound = [r \in SttRuns |-> FALSE]
    /\ trexit = [r \in SttRuns |-> "none"]

\* Lines 61-62: open(temp_filepath, "wb") creates the file and write fills it.
TrWriteOk ==
    \E r \in SttRuns :
        /\ trpc[r] = "write"
        /\ trfiles' = [trfiles EXCEPT ![r] = @ \cup {"temp_filepath"}]
        /\ trcreated' = [trcreated EXCEPT ![r] = @ \cup {"temp_filepath"}]
        /\ trpc' = [trpc EXCEPT ![r] = "convert"]
        /\ UNCHANGED <<trremoved, trmissing, trbound, trexit>>
        /\ UNCHANGED notStt

\* Lines 61-62 raise: open fails and creates nothing, or write fails in the
\* file open has created.
TrWriteFail ==
    \E r \in SttRuns, opened \in BOOLEAN :
        /\ trpc[r] = "write"
        /\ trfiles' = [trfiles EXCEPT ![r] = IF opened THEN @ \cup {"temp_filepath"} ELSE @]
        /\ trcreated' = [trcreated EXCEPT ![r] = IF opened THEN @ \cup {"temp_filepath"} ELSE @]
        /\ trpc' = [trpc EXCEPT ![r] = "finally"]
        /\ trexit' = [trexit EXCEPT ![r] = "write_failed"]
        /\ UNCHANGED <<trremoved, trmissing, trbound>>
        /\ UNCHANGED notStt

\* Lines 65-71: converted_filepath is bound, then ffmpeg writes the file.
TrConvertOk ==
    \E r \in SttRuns :
        /\ trpc[r] = "convert"
        /\ trbound' = [trbound EXCEPT ![r] = TRUE]
        /\ trfiles' = [trfiles EXCEPT ![r] = @ \cup {"converted_filepath"}]
        /\ trcreated' = [trcreated EXCEPT ![r] = @ \cup {"converted_filepath"}]
        /\ trpc' = [trpc EXCEPT ![r] = "provider"]
        /\ UNCHANGED <<trremoved, trmissing, trexit>>
        /\ UNCHANGED notStt

\* Lines 65-71: converted_filepath is bound, then ffmpeg's run() raises, with
\* or without having created its output file.
TrConvertFail ==
    \E r \in SttRuns, written \in BOOLEAN :
        /\ trpc[r] = "convert"
        /\ trbound' = [trbound EXCEPT ![r] = TRUE]
        /\ trfiles' = [trfiles EXCEPT ![r] = IF written THEN @ \cup {"converted_filepath"} ELSE @]
        /\ trcreated' = [trcreated EXCEPT ![r] = IF written THEN @ \cup {"converted_filepath"} ELSE @]
        /\ trpc' = [trpc EXCEPT ![r] = "finally"]
        /\ trexit' = [trexit EXCEPT ![r] = "convert_failed"]
        /\ UNCHANGED <<trremoved, trmissing>>
        /\ UNCHANGED notStt

\* Lines 74-100: execute_fallback_chain returns, with the provider's text or,
\* after the provider failed, with the placeholder of stt_text_only_mode.
TrProviderReturn ==
    \E r \in SttRuns, how \in {"success", "provider_failed"} :
        /\ trpc[r] = "provider"
        /\ trpc' = [trpc EXCEPT ![r] = "finally"]
        /\ trexit' = [trexit EXCEPT ![r] = how]
        /\ UNCHANGED <<trfiles, trcreated, trremoved, trmissing, trbound>>
        /\ UNCHANGED notStt

\* The STT deadline cancels transcribe at `await execute_fallback_chain(..)`.
TrCancelled ==
    \E r \in SttRuns :
        /\ trpc[r] = "provider"
        /\ trpc' = [trpc EXCEPT ![r] = "finally"]
        /\ trexit' = [trexit EXCEPT ![r] = "cancelled"]
        /\ UNCHANGED <<trfiles, trcreated, trremoved, trmissing, trbound>>
        /\ UNCHANGED notStt

\* Lines 102-106, the finally block: os.remove(temp_filepath), then
\* os.remove(converted_filepath) if the name is bound.  os.remove of a file
\* that does not exist raises FileNotFoundError, which leaves the block.
TrFinally ==
    \E r \in SttRuns :
        /\ trpc[r] = "finally"
        /\ trpc' = [trpc EXCEPT ![r] = "done"]
        /\ IF "temp_filepath" \notin trfiles[r]
           THEN /\ trmissing' = [trmissing EXCEPT ![r] = @ \cup {"temp_filepath"}]
                /\ UNCHANGED <<trfiles, trremoved>>
           ELSE IF ~trbound[r]
           THEN /\ trfiles' = [trfiles EXCEPT ![r] = @ \ {"temp_filepath"}]
                /\ trremoved' = [trremoved EXCEPT ![r]["temp_filepath"] = @ + 1]
                /\ UNCHANGED trmissing
           ELSE IF "converted_filepath" \notin trfiles[r]
           THEN /\ trfiles' = [trfiles EXCEPT ![r] = @ \ {"temp_filepath"}]
                /\ trremoved' = [trremoved EXCEPT ![r]["temp_filepath"] = @ + 1]
                /\ trmissing' = [trmissing EXCEPT ![r] = @ \cup {"converted_filepath"}]
           ELSE /\ trfiles' = [trfiles EXCEPT ![r] = {}]
                /\ trremoved' = [trremoved EXCEPT ![r] = [f \in SttFiles |-> @[f] + 1]]
                /\ UNCHANGED trmissing
        /\ UNCHANGED <<trcreated, trbound, trexit>>
        /\ UNCHANGED notStt

(***************************************************************************)
(* Instagram Chat Bot/rate_limiter.py: RateLimiter without Redis            *)
(* (redis_client is None), so that _check_redis_limit hands over to         *)
(* _check_local_limit.  Times are whole minutes.  _check_local_limit never  *)
(* suspends, so one call of check_rate_limit is one step.                   *)
(***************************************************************************)
Users == 1..MaxUsers
MINUTES_PER_HOUR == 60

\* now.replace(second=0, ..) / now.replace(minute=0, second=0, ..)
window_start(window_type, t) ==
    IF window_type = "minute" THEN t ELSE t - (t % MINUTES_PER_HOUR)
\* timedelta(minutes=1) / timedelta(hours=1)
window_duration(window_type) ==
    IF window_type = "minute" THEN 1 ELSE MINUTES_PER_HOUR

\* key = f"{user_id}_{window_type}_{window_start.isoformat()}"
StorageKey(u, window_type, t) ==
    [user_id |-> u, window_type |-> window_type, start |-> window_start(window_type, t)]

\* Lines 99-104: cutoff_time = now - window_duration * 2; every item of the
\* dict, whatever its user and window type, is kept only if it was updated
\* after the cutoff.
CleanOld(storage, window_type, t) ==
    { item \in storage : item.last_updated > t - 2 * window_duration(window_type) }

\* Lines 106-126: the item of the key after the call: created or reset with
\* count 0, then incremented.
CountedItem(storage, u, window_type, t) ==
    LET key == StorageKey(u, window_type, t)
        kept == { item \in CleanOld(storage, window_type, t) : item.key = key }
        old == IF kept = {} THEN 0
               ELSE LET item == CHOOSE item \in kept : TRUE
                    IN  IF t >= item.window_start + window_duration(window_type)
                        THEN 0 ELSE item.count
    IN  [key |-> key, count |-> old + 1, window_start |-> key.start, last_updated |-> t]

\* _check_local_limit(user_id, limit, window_type): the dict it leaves.
StorageAfter(storage, u, window_type, t) ==
    { item \in CleanOld(storage, window_type, t) : item.key # StorageKey(u, window_type, t) }
        \cup {CountedItem(storage, u, window_type, t)}

\* Lines 128-130: allowed = current_count <= limit
LimitAllows(storage, u, limit, window_type, t) ==
    CountedItem(storage, u, window_type, t).count <= limit

RateIdle ==
    /\ now = 0 /\ local_storage = {} /\ ncalls = MaxCalls
    /\ grants = [u \in Users |-> [t \in 0..MaxClock |-> 0]]

RateInit ==
    /\ now = 0
    /\ local_storage = {}
    /\ ncalls = 0
    /\ grants = [u \in Users |-> [t \in 0..MaxClock |-> 0]]

\* A minute passes.
RateTick ==
    /\ now < MaxClock
    /\ now' = now + 1
    /\ UNCHANGED <<local_storage, grants, ncalls>>
    /\ UNCHANGED notRate

\* check_rate_limit(user_id), lines 138-152: the minute limit is checked, then
\* the hour limit, and allowed is the conjunction of the two answers.
CheckRateLimit ==
    \E u \in Users :
        LET after_minute == StorageAfter(local_storage, u, "minute", now)
            minute_allowed == LimitAllows(local_storage, u, RATE_LIMIT_PER_USER_PER_MINUTE,
                                          "minute", now)
            hour_allowed == LimitAllows(after_minute, u, RATE_LIMIT_PER_USER_PER_HOUR,
                                        "hour", now)
        IN  /\ ncalls < MaxCalls
            /\ ncalls' = ncalls + 1
            /\ local_storage' = StorageAfter(after_minute, u, "hour", now)
            /\ grants' = IF minute_allowed /\ hour_allowed
                         THEN [grants EXCEPT ![u][now] = @ + 1] ELSE grants
            /\ UNCHANGED now
            /\ UNCHANGED notRate

(***************************************************************************)
(* Specifications                                                           *)
(***************************************************************************)
DelayNext == DelayStep
InitDelay == DelayInit /\ RetryIdle /\ FbIdle /\ PipeIdle /\ TempIdle /\ LoopIdle /\ SessIdle /\ ClassIdle /\ StreamIdle /\ SttIdle /\ RateIdle
SpecDelay == InitDelay /\ [][DelayNext]_vars

RetryNext ==
    \/ RetryCallOk
    \/ RetryCallFail
    \/ RetrySleepDone
InitRetry == RetryInit /\ DelayIdle /\ FbIdle /\ PipeIdle /\ TempIdle /\ LoopIdle /\ SessIdle /\ ClassIdle /\ StreamIdle /\ SttIdle /\ RateIdle
SpecRetry == InitRetry /\ [][RetryNext]_vars

FbNext ==
    \/ FbPrimary
    \/ FbFallback
InitFallback == FbInit /\ DelayIdle /\ RetryIdle /\ PipeIdle /\ TempIdle /\ LoopIdle /\ SessIdle /\ ClassIdle /\ StreamIdle /\ SttIdle /\ RateIdle
SpecFallback == InitFallback /\ [][FbNext]_vars

PipeNext ==
    \/ Validate
    \/ DeadlineExpires
    \/ StageCancelled
    \/ SttConvert
    \/ SttCallOk
    \/ SttCallFail
    \/ SttSleepDone
    \/ SttFallback
    \/ SttCheck
    \/ AiStart
    \/ AiCallOk
    \/ AiCallFail
    \/ AiSleepDone
    \/ AiCheck
    \/ TtsStart
    \/ TtsCallOk
    \/ TtsCallFail
    \/ TtsSleepDone
    \/ TtsEdge
    \/ Build
Init == PipeInit /\ DelayIdle /\ RetryIdle /\ FbIdle /\ TempIdle /\ LoopIdle /\ SessIdle /\ ClassIdle /\ StreamIdle /\ SttIdle /\ RateIdle
Spec == Init /\ [][PipeNext]_vars

TempNext ==
    \/ TempCreate
    \/ TempName
    \/ TempSaveOk
    \/ TempSaveFail
    \/ TempSaveCancelled
    \/ TempReadRemove
    \/ TempAddTask
    \/ TempBackground
InitTemp == TempInit /\ DelayIdle /\ RetryIdle /\ FbIdle /\ PipeIdle /\ LoopIdle /\ SessIdle /\ ClassIdle /\ StreamIdle /\ SttIdle /\ RateIdle
SpecTemp == InitTemp /\ [][TempNext]_vars

LoopNext ==
    \/ LoopCall
    \/ LoopCallOk
    \/ LoopCallFail
    \/ LoopWake
InitLoop == LoopInit /\ DelayIdle /\ RetryIdle /\ FbIdle /\ PipeIdle /\ TempIdle /\ SessIdle /\ ClassIdle /\ StreamIdle /\ SttIdle /\ RateIdle
SpecLoop == InitLoop /\ [][LoopNext]_vars

SessNext ==
    \/ SessCreate
    \/ SessReuse
InitSessions ==
    SessInit /\ DelayIdle /\ RetryIdle /\ FbIdle /\ PipeIdle /\ TempIdle /\ LoopIdle /\ ClassIdle /\ StreamIdle /\ SttIdle /\ RateIdle
SpecSessions == InitSessions /\ [][SessNext]_vars

ClassNext == Classify
InitClassify ==
    ClassInit /\ DelayIdle /\ RetryIdle /\ FbIdle /\ PipeIdle /\ TempIdle /\ LoopIdle /\ SessIdle /\ StreamIdle /\ SttIdle /\ RateIdle
SpecClassify == InitClassify /\ [][ClassNext]_vars

StreamNext ==
    \/ StreamOpen
    \/ StreamEdge
    \/ StreamTtsFail
    \/ StreamStart
    \/ StreamNeverIterated
    \/ StreamChunk
    \/ StreamDrain
    \/ StreamAbort
InitStream ==
    StreamInit /\ DelayIdle /\ RetryIdle /\ FbIdle /\ PipeIdle /\ TempIdle /\ LoopIdle /\ SessIdle /\ ClassIdle /\ SttIdle /\ RateIdle
SpecStream == InitStream /\ [][StreamNext]_vars

SttNext ==
    \/ TrWriteOk
    \/ TrWriteFail
    \/ TrConvertOk
    \/ TrConvertFail
    \/ TrProviderReturn
    \/ TrCancelled
    \/ TrFinally
InitStt ==
    SttInit /\ DelayIdle /\ RetryIdle /\ FbIdle /\ PipeIdle /\ TempIdle /\ LoopIdle /\ SessIdle /\ ClassIdle /\ StreamIdle /\ RateIdle
SpecStt == InitStt /\ [][SttNext]_vars

RateNext ==
    \/ RateTick
    \/ CheckRateLimit
InitRate ==
    RateInit /\ DelayIdle /\ RetryIdle /\ FbIdle /\ PipeIdle /\ TempIdle /\ LoopIdle /\ SessIdle /\ ClassIdle /\ StreamIdle /\ SttIdle
SpecRate == InitRate /\ [][RateNext]_vars

(***************************************************************************)
(* Properties                                                               *)
(***************************************************************************)
RetryDone == rpc \in {"returned", "raised"}

\* C1 (SpecRetry): with max_attempts = N >= 1, an operation that fails with a
\* retryable error on every call is invoked exactly N times by retry_async and
\* retry_sync, never more, and the run ends by raising the exception of the
\* last (N-th) attempt; while fewer than N calls were made the run is not over.
C1_RetryTermination ==
    /\ calls <= rcfg.max_attempts
    /\ (allRetryable /\ ~RetryDone) => calls < rcfg.max_attempts
    /\ (allRetryable /\ RetryDone) =>
          /\ rpc = "raised"
          /\ calls = rcfg.max_attempts
          /\ raised = last_exception
          /\ raised.id = rcfg.max_attempts - 1

C1_Witness ==
    /\ rpc = "raised" /\ allRetryable
    /\ rcfg.max_attempts >= 3
    /\ rkind = "sync"

\* C2 (SpecRetry): a call that fails with a non-retryable error is the last call
\* of the run and its exception is the one raised; in particular an operation
\* whose first call fails with a non-retryable error is attempted exactly once,
\* whatever max_attempts is.
C2_NonRetryableOnce ==
    /\ (calls > 0 /\ last_exception # NoError /\ ~should_retry(last_exception)) =>
          /\ rpc = "raised"
          /\ raised = last_exception
          /\ calls = last_exception.id + 1
    /\ (firstOutcome = "fatal") =>
          /\ rpc = "raised" /\ calls = 1 /\ raised.id = 0

C2_Witness ==
    /\ rpc = "raised" /\ calls = 1
    /\ rcfg.max_attempts >= 3
    /\ raised.type = "Exception" /\ raised.msg = {"401"}

\* Position of the first candidate of the chain that does not raise, 0 if none.
FirstOk ==
    IF \E i \in 1..Len(cands) : cands[i] # "fail"
    THEN CHOOSE i \in 1..Len(cands) :
            cands[i] # "fail" /\ \A j \in 1..(i - 1) : cands[j] = "fail"
    ELSE 0

\* C3 (SpecFallback): the candidates are invoked in the order primary, fallback
\* 1, fallback 2, ..., each at most once; every candidate invoked before the
\* last one invoked failed; and when some candidate succeeds the chain stops
\* there with success = true, provider_used = its name and fallback_level = its
\* position (0 for the primary, i for fallback i).
C3_FallbackOrdering ==
    /\ Len(invoked) <= Len(cands)
    /\ \A i \in 1..Len(invoked) : invoked[i] = NameOf(i)
    /\ \A i \in 1..(Len(invoked) - 1) : cands[i] = "fail"
    /\ (fpc = "done" /\ FirstOk # 0) =>
          /\ fresult.success
          /\ fresult.provider_used = NameOf(FirstOk)
          /\ fresult.fallback_level = FirstOk - 1
          /\ Len(invoked) = FirstOk

C3_Witness ==
    /\ fpc = "done"
    /\ Len(cands) >= 4
    /\ cands[1] = "fail" /\ cands[2] = "fail" /\ cands[3] = "value"
    /\ fresult.fallback_level = 2

\* C4 (SpecFallback): when the primary and every fallback fail, or the primary
\* fails and fallback_funcs is empty or None, the chain returns a FallbackResult
\* with success = false, fallback_level = -1, provider_used = None and error =
\* the primary's exception (not a fallback's).
C4_FallbackExhaustion ==
    (fpc = "done" /\ FirstOk = 0) =>
        /\ fresult = FallbackResult(FALSE, NoneValue, NoName, -1, primaryErr)
        /\ primaryErr # NoError
        /\ fresult.error.id = 0
        /\ Len(invoked) = Len(cands)

C4_Witness ==
    /\ fpc = "done" /\ FirstOk = 0
    /\ Len(cands) >= 3

\* C5 (SpecFallback): every FallbackResult returned has success = true exactly
\* when a result is present and no error is, and fallback_level = -1 exactly
\* when success is false.
C5_ResultInvariant ==
    (fpc = "done") =>
        /\ fresult.success <=> (fresult.result # NoneValue /\ fresult.error = NoError)
        /\ (fresult.fallback_level = -1) <=> ~fresult.success

Validated == ppc # "validate"

\* C7 as stated (Spec): an empty payload is rejected with 400 and a payload
\* larger than MAX_AUDIO_SIZE with 413, with no provider call.
C7_Original ==
    Validated =>
        /\ (req.size = 0) => (status = 400 /\ NoProviderCalled)
        /\ (req.size > MAX_AUDIO_SIZE) => (status = 413 /\ NoProviderCalled)

\* C7 (Spec), amended: an empty payload is rejected with 400; a payload larger
\* than MAX_AUDIO_SIZE is rejected with 413 when its content type is an audio
\* type and with 400 (invalid file type, tested first) when it is not; in all
\* these cases no STT, AI or TTS provider call is made.
C7_InputRejection ==
    Validated =>
        /\ (req.size = 0) => (status = 400 /\ ppc = "done" /\ NoProviderCalled)
        /\ (req.size > MAX_AUDIO_SIZE) =>
              /\ status = (IF req.audio_type THEN 413 ELSE 400)
              /\ ppc = "done"
              /\ NoProviderCalled

C7_Witness ==
    /\ ppc = "done" /\ req.audio_type /\ req.size > MAX_AUDIO_SIZE /\ status = 413

StageRank(s) == IF s = "stt" THEN 1 ELSE IF s = "ai" THEN 2 ELSE 3
Invokes(ev) == ev.k \in {"call", "fallback"}

\* C8 (Spec): within one request the stages run strictly in sequence: no
\* provider of a stage is invoked after a provider of a later stage, the first
\* AI provider call comes after transcribe has returned a usable transcript,
\* and the first TTS provider call after get_completion has returned a
\* non-empty reply.
C8_StagesSequential ==
    /\ \A i, j \in 1..Len(events) :
          (i < j /\ Invokes(events[i]) /\ Invokes(events[j])) =>
              StageRank(events[i].stage) <= StageRank(events[j].stage)
    /\ \A i \in 1..Len(events) :
          (Invokes(events[i]) /\ events[i].stage = "ai") =>
              /\ \E j \in 1..(i - 1) : events[j] = StageReturn("stt")
              /\ transcript \in {"text", "placeholder"}
    /\ \A i \in 1..Len(events) :
          (Invokes(events[i]) /\ events[i].stage = "tts") =>
              /\ \E j \in 1..(i - 1) : events[j] = StageReturn("ai")
              /\ ai_response = "text"
    /\ (ppc \in {"tts_start", "tts_call", "tts_sleep", "tts_edge", "build"}) =>
          Has(StageReturn("ai"))

C8_Witness ==
    /\ status = 200
    /\ CallCount("stt") >= 2 /\ CallCount("ai") >= 2 /\ CallCount("tts") >= 2

LaterStages(s) == { t \in Stages : StageRank(t) > StageRank(s) }

\* C9 (Spec): when the deadline of a stage passes while the stage is running,
\* the request ends with status 504 at that stage and no later stage is invoked.
C9_DeadlineIs504 ==
    (ppc = "done") =>
        \A s \in Stages :
            expired[s] =>
                /\ status = 504
                /\ failedAt = s
                /\ \A t \in LaterStages(s) : ~StageTouched(t)

\* C10 (Spec): a provider failure ends the request only after every candidate
\* of the failing stage's fallback chain has been tried, and once a stage has
\* failed no later stage is invoked.
C10_FailureContained ==
    (ppc = "done" /\ cause = "provider") =>
        /\ \A i \in 1..Len(FallbackChainOf(failedAt)) :
              Has(FallbackCall(failedAt, FallbackChainOf(failedAt)[i]))
        /\ status >= 500
        /\ \A t \in LaterStages(failedAt) : ~StageTouched(t)

AiPositions == {"ai_call", "ai_sleep", "ai_check"}
TtsPositions == {"tts_start", "tts_call", "tts_sleep", "tts_edge"}

\* C11 (Spec): whatever the length of the history the client sent, the history
\* handed to get_completion and the history returned in the X-Conversation
\* header have at most MAX_CONVERSATION_LENGTH entries.
C11_HistoryBounded ==
    /\ Has(StageEnter("ai")) =>
          Len(MessagesB64(messages).entries) <= MAX_CONVERSATION_LENGTH
    /\ Len(messages) <= MAX_CONVERSATION_LENGTH
    /\ Len(conversation_header.entries) <= MAX_CONVERSATION_LENGTH

C11_Witness ==
    /\ status = 200
    /\ Len(req.conversation.entries) = MAX_CONVERSATION_LENGTH + MaxExtraTurns
    /\ Len(messages) = MAX_CONVERSATION_LENGTH
    /\ messages[1] = ClientTurn(MaxExtraTurns + 3)

MalformedKinds == {"bad_base64", "non_ascii", "bad_json", "bad_utf8", "non_list"}

\* C12 (Spec): a Conversation header that is malformed base64, malformed JSON,
\* not valid UTF-8 or not a list is treated as an empty history: the request
\* never fails because of the header and reaches the AI stage with an empty
\* history.
C12_HeaderNeverFatal ==
    (req.conversation.kind \in MalformedKinds) =>
        /\ cause # "header"
        /\ (ppc \in AiPositions) => (Has(StageEnter("ai")) /\ messages = <<>>)

C14_EmptyReplyFatal ==
    (Has(StageReturn("ai")) /\ Blank(ai_response_text)) =>
        /\ ppc \in {"ai_check", "done"}
        /\ (ppc = "done") => (status = 500 /\ failedAt = "ai")
        /\ ~Has(StageEnter("tts"))
        /\ ~StageTouched("tts")

C14_Witness ==
    /\ ppc = "done" /\ status = 500 /\ cause = "empty"
    /\ ai_response_text = Str(2, 0)
    /\ CallCount("ai") >= 2

\* C15 (Spec): when the transcript is empty or whitespace-only after the cut to
\* 1000 characters, the request ends with status 400 and neither the AI stage
\* nor the TTS stage is invoked.
C15_BlankTranscript400 ==
    (ppc = "done" /\ Has(StageReturn("stt")) /\ transcript_text # NoText
        /\ Blank(TruncateTranscript(transcript_text))) =>
        /\ status = 400
        /\ ~Has(StageEnter("ai")) /\ ~StageTouched("ai")
        /\ ~Has(StageEnter("tts")) /\ ~StageTouched("tts")

RetryConfigOf(s) ==
    IF s = "stt" THEN RETRY_CONFIG_STT
    ELSE IF s = "ai" THEN RETRY_CONFIG_AI ELSE RETRY_CONFIG_TTS
FallbackCount(s) ==
    Cardinality({ i \in 1..Len(events) : events[i].stage = s /\ events[i].k = "fallback" })

\* C16 (Spec): when the primary provider of a stage fails with a retryable error
\* on every attempt and the first fallback of the stage succeeds, the primary
\* was attempted exactly max_attempts times of the stage's RetryConfig, all
\* before the single invocation of the fallback.
C16_RetryThenFallback ==
    \A s \in Stages :
        (/\ retryableOnly[s] /\ CallCount(s) >= 1
         /\ Has(FallbackCall(s, FallbackChainOf(s)[1]))
         /\ Has(StageReturn(s))) =>
            /\ CallCount(s) = RetryConfigOf(s).max_attempts
            /\ FallbackCount(s) = 1
            /\ \A i, j \in 1..Len(events) :
                  (events[i] = ProviderCall(s) /\ events[j].stage = s
                     /\ events[j].k = "fallback") => i < j

\* C17 (Spec): an overlong stage output is never a cause of failure: the
\* transcript handed to the AI stage has at most 1000 characters, the reply
\* handed to the TTS stage at most 5000, and the request is not rejected for
\* the length of the reply.
C17_OverlongNotFatal ==
    (ppc = "done") =>
        /\ Has(Truncated("stt")) => StrLen(transcript_text) <= MAX_TRANSCRIPT_CHARS
        /\ Has(Truncated("ai")) =>
              /\ StrLen(ai_response_text) <= MAX_RESPONSE_CHARS
              /\ cause # "validation"

\* C18 (SpecTemp): the temporary files of concurrent candidates have different
\* names, no file is removed twice, and a candidate that has ended (returned,
\* failed or been cancelled) has left no file behind: every file it created has
\* been removed exactly once.
C18_TempFilesCleaned ==
    /\ \A r1, r2 \in TempRuns :
          (r1 # r2 /\ tpath[r1] # NoPath) => tpath[r1] # tpath[r2]
    /\ \A p \in TempNames : removed[p] <= 1
    /\ \A r \in TempRuns :
          (tpc[r] = "done" /\ tpath[r] \in created) =>
              /\ tpath[r] \notin files
              /\ removed[tpath[r]] = 1

\* C19 (SpecLoop): while a request is in a retry backoff sleep, under
\* retry_async or retry_sync, every other request that has not ended can take
\* its next step.
C19_SleepDoesNotBlock ==
    \A t, u \in LoopTasks :
        (t # u /\ lpc[t] = "sleep" /\ lpc[u] # "done") => CanRun(u)

\* C20 (SpecSessions): requests share no mutable state: the CustomGPT session
\* identifier a request uses is never one that a request of a different
\* conversation has created or uses.
C20_NoSharedSession ==
    \A q1, q2 \in SessRequests :
        (/\ spc[q1] = "done" /\ spc[q2] = "done"
         /\ sconv[q1] # sconv[q2]) => session_id[q1] # session_id[q2]
\* C21 (Spec): an exception raised while the request is orchestrated ends it
\* with status 500 and a generic detail: the response carries no part of the
\* exception's message, so two failures that differ in the exception text only
\* give the same response.
C21_GenericDetail ==
    (ppc = "done" /\ status = 500) => detail = ErrorDetail(failedAt, {})

HasFatalMarker(e) == e.msg \cap non_retryable_conditions # {}

\* C22 as stated (SpecClassify): should_retry answers false for every error
\* whose message contains "401", "403", "404", "invalid api key",
\* "authentication" or "authorization", whatever else the message contains and
\* whatever the exception's type.
C22_Original ==
    (verdict # "unset" /\ HasFatalMarker(exception)) => verdict = "False"

\* C22 (SpecClassify), amended: for an error whose message contains one of
\* these substrings, should_retry answers false exactly when the exception is
\* not a ConnectionError / TimeoutError and the message contains none of the
\* retryable substrings; otherwise it answers true.
C22_FatalUnlessRetryable ==
    (verdict # "unset" /\ HasFatalMarker(exception)) =>
        (verdict = "False" <=>
            (/\ exception.type \notin NetworkTypes
             /\ exception.msg \cap retryable_conditions = {}))

C22_Witness ==
    /\ verdict = "False"
    /\ exception.type = "Exception"
    /\ exception.msg = {"403", "500"}

\* The values calculate_delay(a) can return under configuration cfg.
DelaysOf(cfg, a) ==
    { calculate_delay(cfg, a, r) : r \in (IF cfg.jitter THEN 0..(JitterSteps - 1) ELSE {0}) }

\* C23 (SpecRetry): retry_async and retry_sync sleep only between a retryable
\* failure and the next attempt: the i-th sleep follows the failed attempt
\* i - 1 and lasts calculate_delay(i - 1); while a sleep is under way the last
\* failure is retryable and not that of the final attempt; and a run that has
\* ended after k attempts (by a success, a non-retryable failure or the failure
\* of the final attempt) has slept exactly k - 1 times.
C23_SleepsBetweenAttempts ==
    /\ \A i \in 1..Len(sleeps) : sleeps[i] \in DelaysOf(rcfg, i - 1)
    /\ (rpc = "call") => (Len(sleeps) = calls /\ calls = attempt)
    /\ (rpc = "sleep") =>
          /\ Len(sleeps) = calls /\ calls = attempt + 1
          /\ should_retry(last_exception)
          /\ attempt < rcfg.max_attempts - 1
    /\ RetryDone => (calls >= 1 /\ Len(sleeps) = calls - 1)

C23_Witness ==
    /\ rpc = "raised" /\ rkind = "sync"
    /\ calls = 3 /\ Len(sleeps) = 2
    /\ sleeps[1] < sleeps[2]
    /\ should_retry(raised)

IsFallbackOf(s, ev) == ev.stage = s /\ ev.k = "fallback"
\* The fallback candidates of stage s that were invoked, in order.
FallbackNames(s) ==
    LET sel == SelectSeq(events, LAMBDA ev : IsFallbackOf(s, ev))
    IN  [i \in 1..Len(sel) |-> sel[i].name]

\* C24 (Spec): when a stage is reported as failed because its retry-wrapped
\* primary provider failed, the candidates of the stage's configured fallback
\* chain (STT_FALLBACK_CHAIN, AI_FALLBACK_CHAIN, TTS_FALLBACK_CHAIN) have all
\* been invoked, once each and in the order of the chain, after the primary.
C24_WholeChainTried ==
    (ppc = "done" /\ cause = "provider" /\ failedAt \in Stages) =>
        /\ FallbackNames(failedAt) = FallbackChainOf(failedAt)
        /\ \A i, j \in 1..Len(events) :
              (events[i] = ProviderCall(failedAt) /\ IsFallbackOf(failedAt, events[j])) => i < j

\* C25 (SpecStream): the provider streaming response the TTS stage opened for
\* a request is closed exactly once in every outcome: never twice, and once
\* when the request has ended, whether the client drained the stream, aborted
\* it midway, or the body was never iterated.
C25_StreamClosedOnce ==
    \A q \in StreamRequests :
        /\ closes[q] <= 1
        /\ (stpc[q] = "ended" /\ streaming_response[q] # "None") =>
              (closes[q] = 1 /\ streaming_response[q] = "closed")

\* C27 (SpecStt): on every exit path (success, failure to write the input
\* file, ffmpeg failure, provider failure, cancellation) transcribe has, when
\* it ends, removed every temporary file it created exactly once, and it never
\* calls os.remove on a file that was not created.
C27_TranscribeCleansUp ==
    \A r \in SttRuns :
        /\ trmissing[r] = {}
        /\ \A f \in SttFiles : trremoved[r][f] <= 1
        /\ (trpc[r] = "done") =>
              /\ trfiles[r] = {}
              /\ \A f \in trcreated[r] : trremoved[r][f] = 1

SleepPositions == {"stt_sleep", "ai_sleep", "tts_sleep"}
InvokeCount(s) ==
    Cardinality({ i \in 1..Len(events) : events[i].stage = s /\ Invokes(events[i]) })

\* C26 (Spec): once the deadline of a stage has expired nothing of that stage
\* runs: the provider call in flight is aborted rather than completed, no
\* further attempt or fallback candidate is started and no backoff sleep of the
\* stage begins; this includes the CustomGPT AI path.
C26_NothingAfterDeadline ==
    [][\A s \in Stages :
          expired[s] =>
              /\ InvokeCount(s)' = InvokeCount(s)
              /\ ~(StageOf(ppc') = s /\ ppc' # ppc /\ ppc' \in SleepPositions)]_vars

\* C28 (Spec): when the primary STT provider has failed on every attempt,
\* transcribe does not raise: the text-only candidate of STT_FALLBACK_CHAIN
\* returns the placeholder, which becomes the transcript, and the request goes
\* on to call get_completion with the placeholder as the prompt.
C28_PlaceholderPrompt ==
    Has(FallbackCall("stt", STT_FALLBACK_CHAIN[1])) =>
        /\ Has(StageReturn("stt"))
        /\ transcript_text = PlaceholderText
        /\ failedAt # "stt"
        /\ (ppc = "done") => Has(StageEnter("ai"))

\* The positions before i at which a request of the conversation of served[i]
\* was handled.
EarlierTurns(i) == { j \in 1..(i - 1) : sconv[served[j]] = sconv[served[i]] }

\* Up to position i the conversation of served[i] sent its requests in the
\* order of a growing history, starting from the empty one.
HistoryGrows(i) ==
    /\ \E j \in EarlierTurns(i) : shist[served[j]] = 0
    /\ \A j, k \in EarlierTurns(i) \cup {i} : (j < k) => shist[served[j]] < shist[served[k]]

\* C29 (SpecSessions): in the CustomGPT path a follow-up request (non-empty
\* history, prompt sent without the instruction preamble) is sent under a
\* session id that an earlier request of the same conversation used, for every
\* sequence of requests in which the history of the conversation grows.
C29_FollowUpSession ==
    \A i \in 1..Len(served) :
        (shist[served[i]] > 0 /\ HistoryGrows(i)) =>
            \E j \in EarlierTurns(i) : session_id[served[j]] = session_id[served[i]]

RECURSIVE GrantsUpTo(_, _, _)
\* The calls of user u answered allowed = true in minutes from..to.
GrantsUpTo(u, from, to) ==
    IF to < from THEN 0 ELSE grants[u][to] + GrantsUpTo(u, from, to - 1)

\* C30 (SpecRate): in local-storage mode a user is answered allowed = true for
\* at most RATE_LIMIT_PER_USER_PER_MINUTE calls within one clock minute and
\* for at most RATE_LIMIT_PER_USER_PER_HOUR calls within one clock hour,
\* whatever the other users do.
C30_RateLimited ==
    \A u \in Users :
        /\ \A t \in 0..MaxClock : grants[u][t] <= RATE_LIMIT_PER_USER_PER_MINUTE
        /\ \A t \in 0..MaxClock :
              GrantsUpTo(u, window_start("hour", t), t) <= RATE_LIMIT_PER_USER_PER_HOUR
====
